---- MODULE Spec2Model ----
(***************************************************************************)
(* fsglue: the property descriptors (property.py) and the model facade     *)
(* (model.py) over a document store.  One model class is declared, with a  *)
(* required string, an auto_now_add and an auto_now timestamp, a computed  *)
(* and a constant property.  Instances live in memory slots; the store is  *)
(* the external collaborator, a map from document id to an untyped dict.   *)
(***************************************************************************)
EXTENDS Integers, Sequences, FiniteSets, TLC

\* ------------------------------------------------------------------ bounds
\* the clock reads 1..MaxTime
MaxTime == 2

\* a tree of nested documents holds at most MaxTreeDocs documents
MaxTreeDocs == 4

\* a list or dict mutated in place holds at most MaxItems elements
MaxItems == 3

\* at most MaxClasses model classes are defined
MaxClasses == 2

\* the collections queried as a group hold at most MaxGroupDocs documents
MaxGroupDocs == 2

\* the collection queried with a limit holds at most MaxStored documents
MaxStored == 102

\* a Sample instance is assigned at most MaxAssigned of its properties
MaxAssigned == 2

\* ------------------------------------------------------------------ values
\* Python values are tagged tuples: None, str, number, datetime.
None == <<"none">>
Str(s) == <<"str", s>>
Num(n) == <<"num", n>>
Dt(n) == <<"dt", n>>
\* a float with a fractional part, n + 0.5, and the datetime of that instant
Flt(n) == <<"float", n>>
DtHalf(n) == <<"dt.5", n>>
\* a float finer than a microsecond, n + 0.0000001
Fine(n) == <<"fine", n>>
\* True / False
Bool(b) == <<"bool", b>>
\* a tuple
Tup(items) == <<"tuple", items>>
\* an exception raised in place of a value
Raise(err) == <<"raise", err>>
IsRaise(v) == v[1] = "raise"
\* the number a numeric string spells; any other string raises ValueError
ParseNum(s) ==
    IF \E n \in 0..9 : ToString(n) = s
    THEN Num(CHOOSE n \in 0..9 : ToString(n) = s)
    ELSE Raise("ValueError")
\* int(value)
PyInt(v) ==
    CASE v[1] = "str" -> ParseNum(v[2])
      [] v[1] = "bool" -> Num(IF v[2] THEN 1 ELSE 0)
      [] v[1] \in {"list", "tuple", "dict", "none"} -> Raise("TypeError")
      [] OTHER -> Num(v[2])
\* float(value); the float of a whole number equals that number
PyFloat(v) ==
    CASE v[1] = "str" -> ParseNum(v[2])
      [] v[1] = "bool" -> Num(IF v[2] THEN 1 ELSE 0)
      [] v[1] \in {"list", "tuple", "dict", "none"} -> Raise("TypeError")
      [] OTHER -> v
\* bool(value)
PyBool(v) ==
    CASE v[1] = "none" -> Bool(FALSE)
      [] v[1] = "bool" -> v
      [] v[1] = "num" -> Bool(v[2] # 0)
      [] v[1] = "str" -> Bool(v[2] # "")
      [] v[1] \in {"list", "tuple"} -> Bool(Len(v[2]) > 0)
      [] v[1] = "dict" -> Bool(v[2] # {})
      [] OTHER -> Bool(TRUE)
\* json.dumps(value): the JSON text, named by the JSON value it spells; a
\* list and a tuple are both spelled as an array
JsonText(j) == <<"text", j>>
Dumps(v) ==
    JsonText(CASE v[1] = "none" -> <<"null">>
               [] v[1] \in {"list", "tuple"} -> <<"array", v[2]>>
               [] v[1] = "dict" -> <<"object", v[2]>>
               [] v[1] = "bool" -> <<IF v[2] THEN "true" ELSE "false">>
               [] v[1] = "str" -> <<"string", v[2]>>
               [] OTHER -> <<"number", v>>)
\* json.loads(text)
Loads(text) ==
    LET j == text[2]
    IN CASE j[1] = "null" -> None
         [] j[1] = "array" -> <<"list", j[2]>>
         [] j[1] = "object" -> <<"dict", j[2]>>
         [] j[1] = "true" -> Bool(TRUE)
         [] j[1] = "false" -> Bool(FALSE)
         [] j[1] = "string" -> Str(j[2])
         [] j[1] = "number" -> j[2]
\* datetime.utcfromtimestamp(value): a datetime holds whole microseconds
UtcFromTimestamp(v) == IF v[1] = "float" THEN DtHalf(v[2]) ELSE Dt(v[2])
\* value.timestamp()
TimestampOf(d) == IF d[1] = "dt.5" THEN Flt(d[2]) ELSE Num(d[2])
\* a list, as a Json property holds it
Lst(items) == <<"list", items>>
\* a dict, as a Json property holds it, named by what it contains
Dict(d) == <<"dict", d>>
\* PropertySpecialValue.SET_NOTHING
SET_NOTHING == <<"SET_NOTHING">>

\* Python dicts are functions on a finite set of keys.
EmptyDict == [k \in {} |-> None]
DictGet(d, k) == IF k \in DOMAIN d THEN d[k] ELSE None
DictSet(d, k, v) == [x \in (DOMAIN d) \cup {k} |-> IF x = k THEN v ELSE d[x]]
\* dict.update(other) / the store's merge of a partial write
DictMerge(d, other) ==
    [x \in (DOMAIN d) \cup (DOMAIN other) |-> IF x \in DOMAIN other THEN other[x] ELSE d[x]]

\* str(value)
PyStr(v) == IF v[1] = "num" THEN Str(ToString(v[2])) ELSE v

\* ------------------------------------------------------------ model class
\* The declared properties, in declaration order (cls._properties).
PropOrder == <<"name", "born_at", "created_at", "updated_at", "label", "kind">>
PropNames == {PropOrder[n] : n \in 1..Len(PropOrder)}

\* the schema argument: None, the empty schema {}, or a JSON Schema
SchemaNone == "None"
SchemaEmpty == "{}"
ITEMS_SCHEMA == "ITEMS_SCHEMA"
COUPON_SCHEMA == "COUPON_SCHEMA"
\* `if self.schema`
SchemaTruthy(schema) == schema \notin {SchemaNone, SchemaEmpty}
\* jsonschema.validate(value, schema) does not raise; ITEMS_SCHEMA is
\* {"type": "array", "minItems": 1, ...}
\* {"type": "array", "minItems": 1, ...}; COUPON_SCHEMA is {"type": "object",
\* "required": ["coupon_id", "coupon_name", "condition"], ...}
JsonschemaValid(value, schema) ==
    IF schema = ITEMS_SCHEMA THEN value[1] = "list" /\ Len(value[2]) >= 1
    ELSE IF schema = COUPON_SCHEMA
    THEN value[1] = "dict" /\ value[2] = {"coupon_id", "coupon_name", "condition"}
    ELSE TRUE

\* the validator argument: None, or a callable that raises on some values
NoValidator == [given |-> FALSE, rejects |-> {}]
ValidatorRejecting(values) == [given |-> TRUE, rejects |-> values]

BaseDef(kind) ==
    [kind |-> kind, required |-> FALSE, default |-> None, has_choices |-> FALSE,
     choices |-> {}, is_virtual |-> FALSE, auto_now |-> FALSE, auto_now_add |-> FALSE,
     value |-> None, schema |-> SchemaNone, validator |-> NoValidator,
     store_as_string |-> FALSE]

\* the declarations of the model classes, by property name
Declared ==
    [k \in {"name", "born_at", "created_at", "updated_at", "label", "kind", "items",
             "coupon", "title", "price", "ratio", "flag", "seen_at", "data", "blob",
             "is_fine"} |->
        CASE k = "name" -> [BaseDef("String") EXCEPT !.required = TRUE]
          [] k = "born_at" -> BaseDef("Timestamp")
          [] k = "created_at" -> [BaseDef("Timestamp") EXCEPT !.auto_now_add = TRUE]
          [] k = "updated_at" -> [BaseDef("Timestamp") EXCEPT !.auto_now = TRUE]
          [] k = "label" -> [BaseDef("Computed") EXCEPT !.is_virtual = TRUE]
          [] k = "kind" -> [BaseDef("Constant") EXCEPT !.value = Str("fruit")]
          [] k = "items" -> [BaseDef("Json") EXCEPT !.schema = ITEMS_SCHEMA,
                                                    !.default = Lst(<<>>), !.required = TRUE]
          [] k = "coupon" -> [BaseDef("Json") EXCEPT !.schema = COUPON_SCHEMA]
          [] k = "title" -> BaseDef("String")
          [] k = "price" -> BaseDef("Integer")
          [] k = "ratio" -> BaseDef("Float")
          [] k = "flag" -> BaseDef("Boolean")
          [] k = "seen_at" -> BaseDef("Timestamp")
          [] k = "data" -> BaseDef("Json")
          [] k = "blob" -> [BaseDef("Json") EXCEPT !.store_as_string = TRUE]
          [] k = "is_fine" -> BaseDef("YesNo")]

PropDef(k) == Declared[k]

\* the properties of a second model class, Purchase, in declaration order
PurchaseOrder == <<"items", "coupon">>
PurchaseNames == {PurchaseOrder[n] : n \in 1..Len(PurchaseOrder)}

\* the properties of a third model class, Sample, one of each kind that
\* keeps the value assigned to it, in declaration order
SampleOrder == <<"title", "price", "ratio", "flag", "seen_at", "data", "blob", "is_fine">>
SampleNames == {SampleOrder[n] : n \in 1..Len(SampleOrder)}

\* the key of the intact shadow in _doc_values
INTACT_PREFIX == "___"
IntactKey(k) == INTACT_PREFIX \o k

\* the identifier key of dict projections and *_by_dict inputs
DICT_ID_KEY == "id"

\* doc_id of an instance that was never persisted (Python None)
NoneId == "~None"

\* --------------------------------------------------------- property kinds
\* the computer of the "label" property: a function of the owning instance
\* (here the instance's name as the application reads it)
calc_label(obj) ==
    LET v == DictGet(obj.vals, "name") IN IF v = None THEN None ELSE PyStr(v)

ToAppValue(self, value, obj) ==
    CASE self.kind = "String" -> IF value # None THEN PyStr(value) ELSE None
      [] self.kind = "Integer" -> IF value # None THEN PyInt(value) ELSE None
      [] self.kind = "Float" -> IF value # None THEN PyFloat(value) ELSE None
      [] self.kind = "Boolean" -> IF value # None THEN PyBool(value) ELSE None
      [] self.kind = "YesNo" -> IF PyBool(value) = Bool(TRUE) THEN Str("Yes") ELSE Str("No")
      [] self.kind = "Timestamp" -> value
      [] self.kind = "Computed" -> calc_label(obj)
      [] self.kind = "Constant" -> self.value
      [] self.kind = "Json" -> value

\* the to_app_value of property k
to_app_value(k, value, obj) == ToAppValue(PropDef(k), value, obj)

\* faulty variant: an auto timestamp accepts the assigned value
from_app_value_no_auto(k, value, obj) ==
    CASE PropDef(k).kind = "String" -> IF value # None THEN PyStr(value) ELSE None
      [] PropDef(k).kind = "Timestamp" -> value
      [] PropDef(k).kind = "Computed" -> SET_NOTHING
      [] PropDef(k).kind = "Constant" -> SET_NOTHING
      [] PropDef(k).kind = "Json" -> value

FromAppValue(self, value, obj) ==
    CASE self.kind = "String" -> IF value # None THEN PyStr(value) ELSE None
      [] self.kind = "Integer" -> IF value # None THEN PyInt(value) ELSE None
      [] self.kind = "Float" -> IF value # None THEN PyFloat(value) ELSE None
      [] self.kind = "Boolean" -> IF value # None THEN PyBool(value) ELSE None
      [] self.kind = "YesNo" -> IF value = Str("Yes") THEN Bool(TRUE) ELSE Bool(FALSE)
      [] self.kind = "Timestamp" ->
            IF self.auto_now \/ self.auto_now_add THEN SET_NOTHING ELSE value
      [] self.kind = "Computed" -> SET_NOTHING
      [] self.kind = "Constant" -> SET_NOTHING
      [] self.kind = "Json" -> value

\* the from_app_value of property k
from_app_value(k, value, obj) == FromAppValue(PropDef(k), value, obj)

\* utcnow is the clock reading t at the time of the call
ToDbValue(self, value, obj, t) ==
    CASE self.kind = "String" -> IF value # None THEN PyStr(value) ELSE None
      [] self.kind = "Integer" -> IF value # None THEN PyInt(value) ELSE None
      [] self.kind = "Float" -> IF value # None THEN PyFloat(value) ELSE None
      [] self.kind = "Boolean" -> IF value # None THEN PyBool(value) ELSE None
      [] self.kind = "YesNo" -> PyBool(value)
      [] self.kind = "Timestamp" ->
            IF self.auto_now THEN Dt(t)
            ELSE IF self.auto_now_add /\ value = None THEN Dt(t)
            ELSE IF value # None THEN UtcFromTimestamp(value)
            ELSE None
      [] self.kind = "Computed" -> calc_label(obj)
      [] self.kind = "Constant" -> self.value
      [] self.kind = "Json" -> IF self.store_as_string THEN Dumps(value) ELSE value

\* the to_db_value of property k
to_db_value(k, value, obj, t) == ToDbValue(PropDef(k), value, obj, t)

FromDbValue(self, value, obj) ==
    CASE self.kind = "String" -> IF value # None THEN PyStr(value) ELSE None
      [] self.kind = "Integer" -> IF value # None THEN PyInt(value) ELSE None
      [] self.kind = "Float" -> IF value # None THEN PyFloat(value) ELSE None
      [] self.kind = "Boolean" -> IF value # None THEN PyBool(value) ELSE None
      [] self.kind = "YesNo" -> PyBool(value)
      [] self.kind = "Timestamp" -> IF value # None THEN TimestampOf(value) ELSE value
      [] self.kind = "Computed" -> SET_NOTHING
      [] self.kind = "Constant" -> SET_NOTHING
      [] self.kind = "Json" ->
            IF value # None /\ self.store_as_string THEN Loads(value) ELSE value

\* the from_db_value of property k
from_db_value(k, value, obj) == FromDbValue(PropDef(k), value, obj)

\* to_db_search_value: the base composition, and the overrides of the
\* Timestamp, Computed and Constant properties
to_db_search_value(k, value) ==
    CASE PropDef(k).kind = "Timestamp" ->
            IF value # None THEN UtcFromTimestamp(PyInt(value)) ELSE value
      [] PropDef(k).kind \in {"Computed", "Constant"} -> value
      [] OTHER -> to_db_value(k, from_app_value(k, value, None), None, 0)

\* faulty variant: validation without the required check
ValidateNoRequired(k, value, obj) ==
    IF PropDef(k).has_choices /\ value \notin PropDef(k).choices THEN "FsglueValidationError"
    ELSE "ok"

\* what one run of _validate leaves: the error raised (or "ok"), the check
\* that raised it, and the checks evaluated
Checked(res, of, calls) == [res |-> res, of |-> of, calls |-> calls]

\* faulty variant: the custom validator runs even after an earlier check failed
ValidateChecksValidatorAlways(cfg, value) ==
    LET c1 == IF cfg.has_choices THEN <<"choices">> ELSE <<>>
        c2 == IF cfg.required THEN c1 \o <<"required">> ELSE c1
        c3 == IF SchemaTruthy(cfg.schema) /\ value # None THEN c2 \o <<"schema">> ELSE c2
        c4 == IF cfg.validator.given THEN <<"validator">> ELSE <<>>
    IN IF cfg.validator.given /\ value \in cfg.validator.rejects
       THEN Checked("ValidatorError", "validator", c3 \o c4)
       ELSE IF cfg.has_choices /\ value \notin cfg.choices
       THEN Checked("FsglueValidationError", "choices", c1 \o c4)
       ELSE IF cfg.required /\ value = None
       THEN Checked("FsglueValidationError", "required", c2 \o c4)
       ELSE IF SchemaTruthy(cfg.schema) /\ value # None /\ ~JsonschemaValid(value, cfg.schema)
       THEN Checked("FsglueValidationError", "schema", c3 \o c4)
       ELSE Checked("ok", "", c3 \o c4)

\* BaseProperty._validate for a property configured as cfg
ValidateChecks(cfg, value) ==
    LET c1 == IF cfg.has_choices THEN <<"choices">> ELSE <<>>
        c2 == IF cfg.required THEN c1 \o <<"required">> ELSE c1
        c3 == IF SchemaTruthy(cfg.schema) /\ value # None THEN c2 \o <<"schema">> ELSE c2
        c4 == IF cfg.validator.given THEN c3 \o <<"validator">> ELSE c3
    IN IF cfg.has_choices /\ value \notin cfg.choices
       THEN Checked("FsglueValidationError", "choices", c1)
       ELSE IF cfg.required /\ value = None
       THEN Checked("FsglueValidationError", "required", c2)
       ELSE IF SchemaTruthy(cfg.schema) /\ value # None /\ ~JsonschemaValid(value, cfg.schema)
       THEN Checked("FsglueValidationError", "schema", c3)
       ELSE IF cfg.validator.given /\ value \in cfg.validator.rejects
       THEN Checked("ValidatorError", "validator", c4)
       ELSE Checked("ok", "", c4)

\* BaseProperty._validate: "ok" or the error raised by the first failing check
Validate(k, value, obj) == ValidateChecks(PropDef(k), value).res

GetAppValue(k, obj, get_intact) ==
    LET v0 == IF ~get_intact THEN DictGet(obj.vals, k) ELSE DictGet(obj.vals, IntactKey(k))
        v == IF v0 = None /\ PropDef(k).default # None THEN PropDef(k).default ELSE v0
    IN to_app_value(k, v, obj)

\* faulty variant: the value is stored before it is validated
SetAppValueStoresFirst(k, obj, value) ==
    LET err == Validate(k, value, obj)
        v == from_app_value(k, value, obj)
    IN IF ~(v = SET_NOTHING)
       THEN [res |-> err, obj |-> [obj EXCEPT !.vals = DictSet(obj.vals, k, v)]]
       ELSE [res |-> err, obj |-> obj]

\* BaseProperty._set_app_value: the error raised (or "ok") and the instance after
SetAppValue(k, obj, value) ==
    LET err == Validate(k, value, obj)
        v == from_app_value(k, value, obj)
    IN IF err # "ok" THEN [res |-> err, obj |-> obj]
       ELSE IF IsRaise(v) THEN [res |-> v[2], obj |-> obj]
       ELSE IF ~(v = SET_NOTHING)
            THEN [res |-> "ok", obj |-> [obj EXCEPT !.vals = DictSet(obj.vals, k, v)]]
            ELSE [res |-> "ok", obj |-> obj]

GetDbValue(k, obj, t) == to_db_value(k, DictGet(obj.vals, k), obj, t)

\* faulty variant: the loaded value is stored without its intact shadow
SetDbValueNoIntact(k, obj, value) ==
    LET v == from_db_value(k, value, obj)
    IN IF ~(v = SET_NOTHING) THEN [obj EXCEPT !.vals = DictSet(obj.vals, k, v)] ELSE obj

\* BaseProperty._set_db_value: the internal value and its intact shadow
SetDbValue(k, obj, value) ==
    LET v == from_db_value(k, value, obj)
    IN IF ~(v = SET_NOTHING)
       THEN [obj EXCEPT !.vals = DictSet(DictSet(obj.vals, k, v), IntactKey(k), v)]
       ELSE obj

GetChange(k, obj) ==
    LET before == GetAppValue(k, obj, TRUE)
        after == GetAppValue(k, obj, FALSE)
    IN IF before = after THEN None ELSE <<"change", before, after>>

\* --------------------------------------------------------- object identity
\* A list or dict is an object: a cell of the heap, held by reference, whose
\* elements are plain values or references to further cells.  A dict is
\* named by its values, in the order of its keys.
Ref(a) == <<"ref", a>>
IsRef(v) == v[1] = "ref"
IsComposite(v) == v[1] \in {"list", "dict"}

\* the objects doc.to_dict() builds for the stored value v: the value or the
\* reference to hand out, and the heap with the new cells
RECURSIVE Build(_, _)
RECURSIVE BuildItems(_, _, _, _)
Build(v, h) ==
    IF IsComposite(v)
    THEN LET r == BuildItems(v[2], 1, h, <<>>)
         IN [val |-> Ref(Len(r.heap) + 1),
             heap |-> Append(r.heap, [kind |-> v[1], items |-> r.items])]
    ELSE [val |-> v, heap |-> h]
BuildItems(items, n, h, acc) ==
    IF n > Len(items) THEN [items |-> acc, heap |-> h]
    ELSE LET b == Build(items[n], h)
         IN BuildItems(items, n + 1, b.heap, Append(acc, b.val))

\* faulty variant: the copy shares the nested lists and dicts
ShallowCopy(v, h) ==
    IF IsRef(v) THEN [val |-> Ref(Len(h) + 1), heap |-> Append(h, h[v[2]])]
    ELSE [val |-> v, heap |-> h]

\* copy.deepcopy(value)
RECURSIVE DeepCopy(_, _)
RECURSIVE CopyItems(_, _, _, _)
DeepCopy(v, h) ==
    IF IsRef(v)
    THEN LET r == CopyItems(h[v[2]].items, 1, h, <<>>)
         IN [val |-> Ref(Len(r.heap) + 1),
             heap |-> Append(r.heap, [kind |-> h[v[2]].kind, items |-> r.items])]
    ELSE [val |-> v, heap |-> h]
CopyItems(items, n, h, acc) ==
    IF n > Len(items) THEN [items |-> acc, heap |-> h]
    ELSE LET c == DeepCopy(items[n], h)
         IN CopyItems(items, n + 1, c.heap, Append(acc, c.val))

\* the value an object graph spells, as == compares it
RECURSIVE Deref(_, _)
Deref(v, h) ==
    IF IsRef(v)
    THEN <<h[v[2]].kind, [i \in 1..Len(h[v[2]].items) |-> Deref(h[v[2]].items[i], h)]>>
    ELSE v

\* the cells reachable from v
RECURSIVE Reach(_, _)
Reach(v, h) ==
    IF IsRef(v)
    THEN {v[2]} \cup UNION {Reach(h[v[2]].items[i], h) : i \in 1..Len(h[v[2]].items)}
    ELSE {}

\* BaseProperty._set_db_value on the object the store handed out: the
\* internal value is that object, the intact shadow a deep copy of a list or
\* dict
SetDbValueRef(k, obj, value, h) ==
    LET v == from_db_value(k, value, obj)
        c == IF IsRef(v) THEN DeepCopy(v, h) ELSE [val |-> v, heap |-> h]
    IN IF ~(v = SET_NOTHING)
       THEN [obj |-> [obj EXCEPT !.vals = DictSet(DictSet(obj.vals, k, v), IntactKey(k), c.val)],
             heap |-> c.heap]
       ELSE [obj |-> obj, heap |-> h]

\* BaseProperty._get_change, == comparing lists and dicts by value
GetChangeRef(k, obj, h) ==
    LET before == Deref(GetAppValue(k, obj, TRUE), h)
        after == Deref(GetAppValue(k, obj, FALSE), h)
    IN IF before = after THEN None ELSE <<"change", before, after>>

\* ------------------------------------------------------------ the instance
\* BaseModel.__init__
NewObj(doc_id) == [doc_id |-> doc_id, vals |-> EmptyDict]

\* the `only` argument: not given (None) or a list of names; the code tests
\* it by truthiness
OnlyNone == [given |-> FALSE, keys |-> {}]
OnlyOf(keys) == [given |-> TRUE, keys |-> keys]
Truthy(only) == only.given /\ only.keys # {}

to_dict(obj, get_intact) ==
    [k \in PropNames \cup {DICT_ID_KEY} |->
        IF k = DICT_ID_KEY
        THEN (IF obj.doc_id = NoneId THEN None ELSE Str(obj.doc_id))
        ELSE GetAppValue(k, obj, get_intact)]

\* faulty variant: virtual properties are written too
ToDbDictKeysWithVirtual(exclude, only) ==
    {k \in PropNames : ~(Truthy(only) /\ k \notin only.keys) /\ k \notin exclude}

ToDbDictKeys(exclude, only) ==
    {k \in PropNames :
        /\ ~(Truthy(only) /\ k \notin only.keys)
        /\ k \notin exclude
        /\ ~PropDef(k).is_virtual}

ToDbDict(obj, exclude, only, t) ==
    [k \in ToDbDictKeys(exclude, only) |-> GetDbValue(k, obj, t)]

\* BaseModel._from_dict over the properties from position n on: stops at the
\* first assignment that raises
RECURSIVE FromDictFrom(_, _, _)
FromDictFrom(n, obj, values) ==
    IF n > Len(PropOrder) THEN [res |-> "ok", obj |-> obj]
    ELSE IF PropOrder[n] \in DOMAIN values
         THEN LET r == SetAppValue(PropOrder[n], obj, values[PropOrder[n]])
              IN IF r.res # "ok" THEN r ELSE FromDictFrom(n + 1, r.obj, values)
         ELSE FromDictFrom(n + 1, obj, values)

FromDict(obj, values) == FromDictFrom(1, obj, values)

RECURSIVE FromDbDictFrom(_, _, _)
FromDbDictFrom(n, obj, values) ==
    IF n > Len(PropOrder) THEN obj
    ELSE IF ~PropDef(PropOrder[n]).is_virtual /\ PropOrder[n] \in DOMAIN values
         THEN FromDbDictFrom(n + 1, SetDbValue(PropOrder[n], obj, values[PropOrder[n]]), values)
         ELSE FromDbDictFrom(n + 1, obj, values)

FromDbDict(obj, values) == FromDbDictFrom(1, obj, values)

\* BaseModel._from_db_dict of the Purchase class
PurchaseFromDbDict(obj, values) ==
    LET o1 == IF "items" \in DOMAIN values THEN SetDbValue("items", obj, values["items"]) ELSE obj
    IN IF "coupon" \in DOMAIN values THEN SetDbValue("coupon", o1, values["coupon"]) ELSE o1

\* Purchase.get_by_id on a stored document doc: doc.to_dict() builds the
\* objects, _from_db_dict hands them to the properties in declaration order
PurchaseLoad(id, doc) ==
    LET bi == IF "items" \in DOMAIN doc THEN Build(doc["items"], <<>>)
              ELSE [val |-> None, heap |-> <<>>]
        bc == IF "coupon" \in DOMAIN doc THEN Build(doc["coupon"], bi.heap)
              ELSE [val |-> None, heap |-> bi.heap]
        o1 == IF "items" \in DOMAIN doc THEN SetDbValueRef("items", NewObj(id), bi.val, bc.heap)
              ELSE [obj |-> NewObj(id), heap |-> bc.heap]
    IN IF "coupon" \in DOMAIN doc THEN SetDbValueRef("coupon", o1.obj, bc.val, o1.heap) ELSE o1

\* BaseModel._to_db_dict of the Sample class, with no exclude and no only
SampleToDbDict(obj, t) == [k \in SampleNames |-> GetDbValue(k, obj, t)]

\* BaseModel._from_db_dict of the Sample class, from position n on
RECURSIVE SampleFromDbDictFrom(_, _, _)
SampleFromDbDictFrom(n, obj, values) ==
    IF n > Len(SampleOrder) THEN obj
    ELSE IF ~PropDef(SampleOrder[n]).is_virtual /\ SampleOrder[n] \in DOMAIN values
         THEN SampleFromDbDictFrom(n + 1, SetDbValue(SampleOrder[n], obj, values[SampleOrder[n]]),
                                   values)
         ELSE SampleFromDbDictFrom(n + 1, obj, values)

SampleFromDbDict(obj, values) == SampleFromDbDictFrom(1, obj, values)

\* BaseModel._validate of the Sample class, from position n on
RECURSIVE SampleValidateFrom(_, _)
SampleValidateFrom(n, obj) ==
    IF n > Len(SampleOrder) THEN "ok"
    ELSE LET err == Validate(SampleOrder[n], GetAppValue(SampleOrder[n], obj, FALSE), obj)
         IN IF err # "ok" THEN err ELSE SampleValidateFrom(n + 1, obj)

\* BaseModel._validate over the properties from position n on
RECURSIVE ValidateFrom(_, _)
ValidateFrom(n, obj) ==
    IF n > Len(PropOrder) THEN "ok"
    ELSE LET err == Validate(PropOrder[n], GetAppValue(PropOrder[n], obj, FALSE), obj)
         IN IF err # "ok" THEN err ELSE ValidateFrom(n + 1, obj)

ValidateAll(obj) == ValidateFrom(1, obj)

\* BaseModel._filter_values
FilterValues(values, exclude, only) ==
    IF Truthy(only)
    THEN [k \in only.keys |-> DictGet(values, k)]
    ELSE [k \in (DOMAIN values) \ exclude |-> values[k]]

\* identifiers: those the store assigns on add, which a caller may also
\* supply, and one that does not match ID_VALIDATION_PATTERN
DocIds == {"x1"}
BadIds == {"d-1"}

\* BaseModel._validate_doc_id against ID_VALIDATION_PATTERN
ValidateDocId(doc_id) == IF doc_id \in BadIds THEN "FsglueValidationError" ELSE "ok"

\* ------------------------------------------------------ class definitions
\* Property descriptors are objects created before the class bodies that
\* bind them; p1 is required.  A body binds attribute names to descriptors,
\* in declaration order (cls.__dict__).
Descs == {"p1", "p2"}
Required(d) == d = "p1"
\* _name of a descriptor no class has fixed up
NoName == "~None"
\* the root of the model classes
BaseModel == "BaseModel"
ClassOrder == <<"A", "B", "C">>
ClassIds == {ClassOrder[n] : n \in 1..Len(ClassOrder)}
Binding(attr, d) == [attr |-> attr, prop |-> d]
Bodies ==
    { <<>>, <<Binding("x", "p1")>>, <<Binding("y", "p2")>>, <<Binding("y", "p1")>>,
      <<Binding("x", "p2"), Binding("y", "p1")>> }
AttrNames == {"x", "y"}

\* no class was defined yet
NoMeta == [name |-> [d \in Descs |-> NoName], classes |-> EmptyDict]

\* faulty variant: every class definition renames the descriptor
FixUpRenames(name, attr) == attr

\* BaseProperty._fix_up: the _name after the call
FixUp(name, attr) == IF name = NoName THEN attr ELSE name

\* faulty variant: the scan covers the attributes of the base classes too
ClassDictInherited(body, base, classes) ==
    IF base = BaseModel THEN body ELSE classes[base].body \o body

\* cls.__dict__: the bindings of the class's own body
ClassDict(body, base, classes) == body

\* BaseModel._fix_up_properties over the bindings from position n on: the
\* descriptor names and cls._properties it leaves
RECURSIVE FixUpProperties(_, _, _, _)
FixUpProperties(dict, n, names, props) ==
    IF n > Len(dict) THEN [name |-> names, props |-> props]
    ELSE LET d == dict[n].prop
             nm == FixUp(names[d], dict[n].attr)
         IN FixUpProperties(dict, n + 1, [names EXCEPT ![d] = nm], DictSet(props, nm, d))

\* the descriptor `obj.<attr>` finds on an instance of c: the class's own
\* binding, or else that of the nearest base class; NoName if there is none
RECURSIVE Lookup(_, _, _)
Lookup(c, attr, classes) ==
    IF c = BaseModel THEN NoName
    ELSE LET own == SelectSeq(classes[c].body, LAMBDA b : b.attr = attr)
         IN IF own # <<>> THEN own[1].prop ELSE Lookup(classes[c].base, attr, classes)

\* BaseModel._validate on an instance of a class with _properties props
ValidateProps(props, obj) ==
    IF \E nm \in DOMAIN props : Required(props[nm]) /\ DictGet(obj.vals, nm) = None
    THEN "FsglueValidationError" ELSE "ok"

\* BaseModel._to_db_dict on an instance of a class with _properties props
PropsToDbDict(props, obj) == [nm \in DOMAIN props |-> DictGet(obj.vals, nm)]

\* BaseModel._from_db_dict on an instance of a class with _properties props
PropsFromDbDict(props, obj, values) ==
    [obj EXCEPT !.vals = [key \in {nm \in DOMAIN props : nm \in DOMAIN values}
                                    \cup {IntactKey(nm) : nm \in
                                            {x \in DOMAIN props : x \in DOMAIN values}} |->
                             IF key \in DOMAIN values THEN values[key]
                             ELSE values[CHOOSE nm \in DOMAIN props : IntactKey(nm) = key]]]

\* BaseModel.to_dict on an instance of a class with _properties props
PropsToDict(props, obj) ==
    [nm \in DOMAIN props \cup {DICT_ID_KEY} |->
        IF nm = DICT_ID_KEY
        THEN (IF obj.doc_id = NoneId THEN None ELSE Str(obj.doc_id))
        ELSE DictGet(obj.vals, nm)]

\* ------------------------------------------------------------------- state
VARIABLES
    store,  \* the collection: document id -> stored dict
    objs,   \* the live instances: slot -> [doc_id, vals (_doc_values)]
    now,    \* the clock utcnow reads
    last,   \* the last call: its arguments, outcome and the calls it made
    walk,   \* the delete_all in progress: its call stack and the deletes issued
    heap,   \* the lists and dicts instances hold by reference: address -> cell
    meta,   \* what class definitions left: descriptor names, class _properties
    upsert  \* the upsert_by_dict in progress: its position, arguments and instance

vars == <<store, objs, now, last, walk, heap, meta, upsert>>

Slots == {"o1"}

NoCall ==
    [op |-> "none", slot |-> "o1", res |-> "ok", log |-> <<>>, created |-> FALSE,
     exclude |-> {}, only |-> OnlyNone, id |-> NoneId, key |-> "", value |-> None,
     validate_ok |-> TRUE, before_ok |-> TRUE, cfg |-> BaseDef("Base"), of |-> "",
     deletable |-> TRUE, existed |-> FALSE, values |-> EmptyDict, without_put |-> FALSE,
     conds |-> <<>>, handed |-> <<>>, matched |-> {}, written |-> {}, template |-> <<>>,
     parents |-> <<>>, path |-> <<>>, collection_id |-> "", ids |-> <<>>,
     branch |-> "", limit |-> <<"none">>, offset |-> <<"none">>]

\* no delete_all was called yet
\* no upsert_by_dict is in progress
NoUpsert == [pc |-> "idle", slot |-> "", values |-> EmptyDict, obj |-> NewObj(NoneId)]

NoWalk ==
    [pc |-> "idle", target |-> <<>>, stack |-> <<>>, log |-> <<>>, before |-> {},
     deletable |-> TRUE, before_ok |-> TRUE]

\* ------------------------------------------------------------------- store
\* DocumentReference.set: replaces the document
StoreSet(st, id, d) == DictSet(st, id, d)
\* DocumentReference.update: merges into the existing document
StoreUpdate(st, id, d) == DictSet(st, id, DictMerge(st[id], d))
\* CollectionReference.add: a new document under a store-assigned id
StoreAdd(st, id, d) == DictSet(st, id, d)
\* DocumentReference.delete
StoreDelete(st, id) == [x \in (DOMAIN st) \ {id} |-> st[x]]

\* Model.exists(doc_id)
Exists(id, st) == id \in DOMAIN st

\* the identifier the store assigns to the next added document
NewIds(st) == IF DocIds \ DOMAIN st = {} THEN {NoneId} ELSE DocIds \ DOMAIN st

\* ------------------------------------------------------- nested documents
\* With subcollections a document is addressed by its path: the ids of the
\* documents from the root collection down to it.  A document that is not
\* stored still has a reference when documents are nested under it.
RootIds == {"x1", "x2"}
\* the ids of nested documents, in the order the store lists them
ChildOrder == <<"m1", "m2">>
ChildIds == {ChildOrder[n] : n \in 1..Len(ChildOrder)}
TreePaths ==
    {<<r>> : r \in RootIds} \cup {<<"x1", c>> : c \in ChildIds} \cup {<<"x2", "m1">>}
        \cup {<<"x1", c, d>> : c \in ChildIds, d \in ChildIds}

IsPrefix(p, q) == Len(p) <= Len(q) /\ SubSeq(q, 1, Len(p)) = p
\* the stored documents at or below p
Under(p, st) == {q \in DOMAIN st : IsPrefix(p, q)}

\* faulty variant: only stored documents are listed
ChildrenStoredOnly(p, st) == {q \in DOMAIN st : Len(q) = Len(p) + 1 /\ IsPrefix(p, q)}

\* the references doc.collections() / collection.list_documents() yield for
\* the document at p: its stored children and the missing ones that have
\* documents below them
Children(p, st) ==
    {SubSeq(q, 1, Len(p) + 1) : q \in {r \in DOMAIN st : Len(r) > Len(p) /\ IsPrefix(p, r)}}

\* the same references in the order the loops visit them
ListDocuments(p, st) ==
    LET ids == SelectSeq(ChildOrder, LAMBDA c : Append(p, c) \in Children(p, st))
    IN [n \in 1..Len(ids) |-> Append(p, ids[n])]

\* a call of _delete_doc_recursive(doc): the children still to visit
Frame(p, st) == [doc |-> p, todo |-> ListDocuments(p, st)]

\* -------------------------------------------------------- collection paths
\* COLLECTION_PATH split at "/": literal segments and "{i}" placeholders.  A
\* store path is the sequence of its segments.
Lit(name) == <<"lit", name>>
Arg(i) == <<"arg", i>>
\* "rooms/{0}/messages" and "category/{0}/group/{1}/page"
MessagePath == <<Lit("rooms"), Arg(0), Lit("messages")>>
PagePath == <<Lit("category"), Arg(0), Lit("group"), Arg(1), Lit("page")>>
Templates == {MessagePath, PagePath}
\* the number of parent identifiers a template takes
Arity(t) == Cardinality({n \in 1..Len(t) : t[n][1] = "arg"})

\* cls.COLLECTION_PATH.format(*parent_ids), split at "/"; format raises
\* IndexError when a placeholder has no argument
GetColPathByIds(t, parent_ids) ==
    IF \E n \in 1..Len(t) : t[n][1] = "arg" /\ t[n][2] + 1 > Len(parent_ids)
    THEN <<"IndexError">>
    ELSE [n \in 1..Len(t) |-> IF t[n][1] = "arg" THEN parent_ids[t[n][2] + 1] ELSE t[n][2]]

\* faulty variant: every segment of the path is taken for a parent identifier
ParentIdsFromPathAll(t, path) ==
    [n \in 1..(IF Len(t) < Len(path) THEN Len(t) ELSE Len(path)) |-> path[n]]

\* BaseModel._parent_ids_from_path: zip pairs the segments of the template
\* with those of the path, up to the shorter of the two
ParentIdsFromPath(t, path) ==
    LET m == IF Len(t) < Len(path) THEN Len(t) ELSE Len(path)
        at == SelectSeq([n \in 1..m |-> n], LAMBDA n : t[n][1] = "arg")
    IN [i \in 1..Len(at) |-> path[at[i]]]

\* the path of document doc_id in the collection at col_path
DocPath(col_path, doc_id) == Append(col_path, doc_id)
\* the collection a stored path lies in, and its document id
ColOf(path) == SubSeq(path, 1, Len(path) - 1)
IdIn(path) == path[Len(path)]

\* client.collection_group(collection_id): the documents of every collection
\* with that id; client.collection(col_path): those of one collection
InGroup(collection_id, st) ==
    {q \in DOMAIN st : Len(q) >= 2 /\ q[Len(q) - 1] = collection_id}
InCollection(col_path, st) == {q \in DOMAIN st : ColOf(q) = col_path}

\* what where / stream make of the fetched document at path q: the instance
\* cls(doc.id, *parent_ids) hydrated from it, and its collection path
Fetched(t, q, parent_ids, st) ==
    [path |-> q, parent_ids |-> parent_ids, obj |-> FromDbDict(NewObj(IdIn(q)), st[q]),
     col_path |-> GetColPathByIds(t, parent_ids)]

\* --------------------------------------------------------------------- put
\* the calls BaseModel._validate makes from position n on: one per property,
\* up to and including the first that raises
RECURSIVE ValidateCalls(_, _)
ValidateCalls(n, obj) ==
    IF n > Len(PropOrder) THEN <<>>
    ELSE IF Validate(PropOrder[n], GetAppValue(PropOrder[n], obj, FALSE), obj) # "ok"
         THEN <<"_validate:" \o PropOrder[n]>>
         ELSE <<"_validate:" \o PropOrder[n]>> \o ValidateCalls(n + 1, obj)

\* faulty variant: put goes on whatever before_put returns
ProceedsAlways(before_ok) == TRUE

\* `if self.before_put(**kwargs):`
Proceeds(before_ok) == before_ok

\* the store write put selects
WriteKind(obj, exclude, only) ==
    IF obj.doc_id # NoneId
    THEN IF Cardinality(exclude) > 0 \/ Truthy(only) THEN "update" ELSE "set"
    ELSE "add"

\* the argument put passes to after_put
AfterPutCreated(kind) == kind = "add"

\* faulty variant: the store write issued before before_put is consulted
ProceedCallsWriteFirst(kind, wrote) ==
    IF wrote THEN <<kind, "before_put:true", "after_put">> ELSE <<kind, "before_put:true">>

\* the calls of a put that proceeds, after those of validation, in order;
\* wrote is false when the store write raised
ProceedCalls(kind, wrote) ==
    IF wrote THEN <<"before_put:true", kind, "after_put">> ELSE <<"before_put:true", kind>>

\* BaseModel.put on obj at clock reading t; validate_ok and before_ok are
\* what the overridable validate() and before_put() hooks do; new_id is the
\* identifier the store assigns if a document is added.
PutRun(obj, exclude, only, validate_ok, before_ok, st, t, new_id) ==
    LET err == ValidateAll(obj)
        vlog == ValidateCalls(1, obj)
        db_dict == ToDbDict(obj, exclude, only, t)
        kind == WriteKind(obj, exclude, only)
        out == [res |-> "ok", obj |-> obj, store |-> st, log |-> vlog, created |-> FALSE,
                written |-> {}]
    IN IF err # "ok"
       THEN [out EXCEPT !.res = err]
       ELSE IF ~validate_ok
       THEN [out EXCEPT !.res = "ValidateHookError", !.log = vlog \o <<"validate">>]
       ELSE IF ~Proceeds(before_ok)
       THEN [out EXCEPT !.log = vlog \o <<"validate", "before_put:false">>]
       ELSE IF kind = "update"
       THEN IF obj.doc_id \in DOMAIN st
            THEN [out EXCEPT !.store = StoreUpdate(st, obj.doc_id, db_dict),
                             !.created = AfterPutCreated(kind), !.written = DOMAIN db_dict,
                             !.log = vlog \o <<"validate">> \o ProceedCalls(kind, TRUE)]
            ELSE [out EXCEPT !.res = "NotFound",
                             !.log = vlog \o <<"validate">> \o ProceedCalls(kind, FALSE)]
       ELSE IF kind = "set"
       THEN [out EXCEPT !.store = StoreSet(st, obj.doc_id, db_dict),
                        !.created = AfterPutCreated(kind), !.written = DOMAIN db_dict,
                        !.log = vlog \o <<"validate">> \o ProceedCalls(kind, TRUE)]
       ELSE IF new_id = NoneId
       THEN [out EXCEPT !.res = "StoreFull"]
       ELSE [out EXCEPT !.store = StoreAdd(st, new_id, db_dict),
                        !.obj = [obj EXCEPT !.doc_id = new_id],
                        !.created = AfterPutCreated(kind), !.written = DOMAIN db_dict,
                        !.log = vlog \o <<"validate">> \o ProceedCalls(kind, TRUE)]

\* BaseModel.get_by_id: the hydrated instance, or None
Hydrate(id, st) == FromDbDict(NewObj(id), st[id])

\* the snapshot the store returns for a document reference: for a document
\* that does not exist, exists is False and to_dict() is None
Snapshot(id, st) ==
    IF id \in DOMAIN st THEN [id |-> id, exists |-> TRUE, data |-> st[id]]
    ELSE [id |-> id, exists |-> FALSE, data |-> EmptyDict]

\* obj._from_db_dict(doc.to_dict()) on cls(doc.id): "k in values" raises
\* TypeError when values is None and the class has a stored property
FromSnapshot(snap) ==
    IF snap.exists THEN [res |-> "ok", obj |-> FromDbDict(NewObj(snap.id), snap.data)]
    ELSE IF \E n \in 1..Len(PropOrder) : ~PropDef(PropOrder[n]).is_virtual
         THEN [res |-> "TypeError", obj |-> NewObj(snap.id)]
         ELSE [res |-> "ok", obj |-> NewObj(snap.id)]

\* BaseModel.get_by_ids: get_all yields one snapshot for every distinct
\* reference, in no fixed order; each is hydrated without asking whether it
\* exists
GetByIdsRun(doc_ids, st) ==
    LET snaps == {Snapshot(doc_ids[n], st) : n \in 1..Len(doc_ids)}
    IN IF Len(doc_ids) = 0 THEN [res |-> "ok", objs |-> {}, log |-> <<>>]
       ELSE IF \E snap \in snaps : FromSnapshot(snap).res # "ok"
            THEN [res |-> "TypeError", objs |-> {}, log |-> <<"get_all">>]
            ELSE [res |-> "ok", objs |-> {FromSnapshot(snap).obj : snap \in snaps},
                  log |-> <<"get_all">>]

\* values.get(DICT_ID_KEY) of a *_by_dict input
IdOf(values) ==
    IF DICT_ID_KEY \in DOMAIN values /\ values[DICT_ID_KEY] # None
    THEN values[DICT_ID_KEY][2] ELSE NoneId

\* what a *_by_dict call that raised err leaves behind: nothing returned
Raised(err, st) ==
    [res |-> err, ret |-> FALSE, obj |-> NewObj(NoneId), store |-> st, log |-> <<>>,
     created |-> FALSE, written |-> {}]

\* faulty variant: without_put skips validation
PutOrValidateUnchecked(obj, exclude, only, without_put, validate_ok, before_ok, st, t, new_id) ==
    IF ~without_put
    THEN LET r == PutRun(obj, exclude, only, validate_ok, before_ok, st, t, new_id)
         IN [ret |-> r.res = "ok"] @@ r
    ELSE [res |-> "ok", ret |-> TRUE, obj |-> obj, store |-> st, log |-> <<>>,
          created |-> FALSE, written |-> {}]

\* the tail of create_by_dict / update_by_dict: put, or validation only
PutOrValidate(obj, exclude, only, without_put, validate_ok, before_ok, st, t, new_id) ==
    IF ~without_put
    THEN LET r == PutRun(obj, exclude, only, validate_ok, before_ok, st, t, new_id)
         IN [ret |-> r.res = "ok"] @@ r
    ELSE LET err == ValidateAll(obj)
         IN IF err # "ok"
            THEN [Raised(err, st) EXCEPT !.log = ValidateCalls(1, obj)]
            ELSE IF ~validate_ok
            THEN [Raised("ValidateHookError", st) EXCEPT
                     !.log = ValidateCalls(1, obj) \o <<"validate">>]
            ELSE [res |-> "ok", ret |-> TRUE, obj |-> obj, store |-> st,
                  log |-> ValidateCalls(1, obj) \o <<"validate">>, created |-> FALSE,
                  written |-> {}]

\* BaseModel.create_by_dict
CreateByDictRun(values, exclude, only, without_put, validate_ok, before_ok, st, t, new_id) ==
    LET doc_id == IdOf(values)
        doc_values == FilterValues(values, exclude, only)
        filled == FromDict(NewObj(doc_id), doc_values)
    IN IF doc_id # NoneId /\ ValidateDocId(doc_id) # "ok"
       THEN Raised(ValidateDocId(doc_id), st)
       ELSE IF filled.res # "ok" THEN Raised(filled.res, st)
       ELSE PutOrValidate(filled.obj, {}, OnlyNone, without_put, validate_ok, before_ok,
                          st, t, new_id)

\* faulty variant: a missing document is created instead of reported
UpdateByDictRunCreates(values, exclude, only, without_put, validate_ok, before_ok, st, t, new_id) ==
    LET doc_id == IdOf(values)
        new_values == FilterValues(values, exclude, only)
        loaded == IF doc_id \in DOMAIN st THEN Hydrate(doc_id, st) ELSE NewObj(doc_id)
    IN IF doc_id = NoneId THEN Raised("FsglueValidationError", st)
       ELSE LET filled == FromDict(loaded, new_values)
            IN IF filled.res # "ok" THEN Raised(filled.res, st)
               ELSE PutOrValidate(filled.obj, {}, OnlyNone, without_put, validate_ok,
                                  before_ok, st, t, new_id)

\* BaseModel.update_by_dict
UpdateByDictRun(values, exclude, only, without_put, validate_ok, before_ok, st, t, new_id) ==
    LET doc_id == IdOf(values)
        new_values == FilterValues(values, exclude, only)
    IN IF doc_id = NoneId THEN Raised("FsglueValidationError", st)
       ELSE IF doc_id \notin DOMAIN st THEN Raised("FsglueDocumentNotFound", st)
       ELSE LET filled == FromDict(Hydrate(doc_id, st), new_values)
            IN IF filled.res # "ok" THEN Raised(filled.res, st)
               ELSE PutOrValidate(filled.obj, exclude, only, without_put, validate_ok,
                                  before_ok, st, t, new_id)

\* faulty variant: upsert always updates
UpsertByDictRunUpdates(values, exclude, only, without_put, validate_ok, before_ok, st, t, new_id) ==
    UpdateByDictRun(values, exclude, only, without_put, validate_ok, before_ok, st, t, new_id)

\* BaseModel.upsert_by_dict
UpsertByDictRun(values, exclude, only, without_put, validate_ok, before_ok, st, t, new_id) ==
    LET doc_id == IdOf(values)
    IN IF doc_id = NoneId THEN Raised("FsglueValidationError", st)
       ELSE IF doc_id \in DOMAIN st
       THEN UpdateByDictRun(values, exclude, only, without_put, validate_ok, before_ok,
                            st, t, new_id)
       ELSE CreateByDictRun(values, exclude, only, without_put, validate_ok, before_ok,
                            st, t, new_id)

\* ------------------------------------------------------------------ where
\* a predicate [field, "==", value]
Cond(field, value) == [field |-> field, value |-> value]

\* the value where / stream hand to the store's filter for one predicate
Handed(cond) ==
    IF cond.field \in PropNames THEN to_db_search_value(cond.field, cond.value)
    ELSE cond.value

\* docs.where(field, "==", value) applied for each predicate in turn
HandedAll(conds) == [n \in 1..Len(conds) |-> Cond(conds[n].field, Handed(conds[n]))]

\* the documents the store's filter lets through
Matching(filters, st) ==
    {id \in DOMAIN st :
        \A n \in 1..Len(filters) :
            /\ filters[n].field \in DOMAIN st[id]
            /\ st[id][filters[n].field] = filters[n].value}

\* the limit of where when the caller gives none
DefaultLimit == 100
\* "if limit:" and "if offset:" of where
Given(v) == v # None /\ v # Num(0)

\* docs.limit(limit), when where calls it: the first limit documents
Limited(seq, limit) ==
    IF ~Given(limit) THEN seq
    ELSE SubSeq(seq, 1, IF limit[2] < Len(seq) THEN limit[2] ELSE Len(seq))

\* docs.offset(offset), when where calls it: the store skips offset
\* documents before it counts the limit
Skipped(seq, offset) ==
    IF ~Given(offset) THEN seq ELSE SubSeq(seq, offset[2] + 1, Len(seq))

\* the documents of a numbered collection that satisfy the filters, in the
\* order the store streams them
Streamed(filters, st) ==
    SelectSeq([n \in 1..Len(st) |-> n],
              LAMBDA id : \A n \in 1..Len(filters) :
                             /\ filters[n].field \in DOMAIN st[id]
                             /\ st[id][filters[n].field] = filters[n].value)

\* BaseModel.where / BaseModel.all: the ids of the instances returned, in order
WhereRun(conds, limit, offset, st) ==
    Limited(Skipped(Streamed(HandedAll(conds), st), offset), limit)

\* BaseModel.stream: the ids of the instances yielded, in order
StreamRun(conds, st) == Streamed(HandedAll(conds), st)

\* ----------------------------------------------------------------- inputs
ExcludeArgs == {{}, {"name"}}
OnlyArgs == {OnlyNone, OnlyOf({}), OnlyOf({"name"})}
AssignValues == {None, Str("a"), Num(1)}
\* the properties assigned to one at a time; born_at is assigned where
\* queries are made
AssignKeys == PropNames \ {"born_at"}
\* the arguments of the *_by_dict calls: values, exclude, only
DictCall(values, exclude, only) == [values |-> values, exclude |-> exclude, only |-> only]
DictCalls ==
    { DictCall([name |-> Str("a")], {}, OnlyNone),
      DictCall([id |-> Str("x1")], {}, OnlyNone),
      DictCall([id |-> Str("x1"), name |-> Num(1)], {}, OnlyNone),
      DictCall([id |-> Str("x1"), name |-> Num(1)], {}, OnlyOf({})),
      DictCall([id |-> Str("x1"), name |-> Str("a"), updated_at |-> Num(1)], {},
               OnlyOf({"name"})),
      DictCall([id |-> Str("x1"), name |-> Str("a"), updated_at |-> Num(1)], {"name"},
               OnlyNone),
      DictCall([id |-> Str("x1"), name |-> Num(1)], {"name"}, OnlyOf({"name"})),
      DictCall([id |-> Str("d-1"), name |-> Str("a")], {}, OnlyNone),
      DictCall([id |-> Str("x1"), name |-> Str("a"), label |-> Str("a"), kind |-> Str("fruit")],
               {}, OnlyNone) }

\* without_put and what the hooks do; a hook that is not reached is not varied
DictModes ==
    {m \in [without_put : BOOLEAN, validate_ok : BOOLEAN, before_ok : BOOLEAN] :
        (m.without_put \/ ~m.validate_ok) => m.before_ok}
PutModes == {m \in [validate_ok : BOOLEAN, before_ok : BOOLEAN] : ~m.validate_ok => m.before_ok}

\* the property configurations and the values validation is run on
ChoicesArgs ==
    { [given |-> FALSE, choices |-> {}], [given |-> TRUE, choices |-> {}],
      [given |-> TRUE, choices |-> {Str("a")}],
      [given |-> TRUE, choices |-> {None, Lst(<<>>)}] }
ValidatorArgs ==
    { NoValidator, ValidatorRejecting({None}), ValidatorRejecting({Str("a"), Lst(<<>>)}) }
PropCfgs ==
    { [BaseDef("Json") EXCEPT !.has_choices = c.given, !.choices = c.choices,
                              !.required = r, !.schema = sc, !.validator = v] :
        c \in ChoicesArgs, r \in BOOLEAN, sc \in {SchemaNone, SchemaEmpty, ITEMS_SCHEMA},
        v \in ValidatorArgs }
ProbeValues == {None, Str("a"), Lst(<<>>), Lst(<<"apple">>)}

\* the documents of the purchase collection and the values assigned to a
\* Purchase
FullCoupon == Dict({"coupon_id", "coupon_name", "condition"})
PurchaseDocs ==
    { [items |-> Lst(<<"apple">>)],
      [items |-> Lst(<<"apple">>), coupon |-> FullCoupon],
      [items |-> Lst(<<"apple", "pear">>), coupon |-> None] }
PurchaseValues ==
    {None, Lst(<<>>), Lst(<<"pear">>), FullCoupon, Dict({"coupon_id", "coupon_name"})}

\* the values assigned to the properties of a Sample
RoundValues(k) ==
    CASE k = "title" -> {None, Str("a"), Num(1)}
      [] k = "price" -> {None, Str("5"), Num(5), Flt(5), Str("a")}
      [] k = "ratio" -> {None, Str("5"), Flt(5), Str("a")}
      [] k = "flag" -> {None, Num(0), Str("a")}
      [] k = "seen_at" -> {None, Num(1), Flt(1), Fine(1)}
      [] k = "data" -> {None, Lst(<<"apple">>), Dict({"coupon_id"})}
      [] k = "blob" -> {None, Lst(<<"apple">>), Dict({"coupon_id"}), Tup(<<"apple">>)}
      [] k = "is_fine" -> {None, Str("Yes"), Str("N/A")}

\* purchase documents whose lists and dicts hold further dicts
NestedDocs ==
    { [items |-> Lst(<<Dict(<<Str("apple")>>)>>)],
      [items |-> Lst(<<Dict(<<Str("apple")>>), Dict(<<Str("pear")>>)>>), coupon |-> None],
      [items |-> Lst(<<>>), coupon |-> Dict(<<Str("test"), Dict(<<Num(1)>>)>>)] }

\* the identifiers of parents and documents in grouped collections, and
\* the paths other model classes store documents at
GroupParentIds == {"r1", "messages"}
GroupDocIds == {"m1"}
ForeignPaths == {<<"users", "r1", "messages", "m1">>, <<"messages", "m1">>}
ParentTuples(t) ==
    IF Arity(t) = 1 THEN {<<a>> : a \in GroupParentIds}
    ELSE {<<a, b>> : a \in GroupParentIds, b \in GroupParentIds}

\* the dicts handed to an upsert_by_dict that other clients interleave with,
\* and the documents those clients create
UpsertValues == {[id |-> Str("x1"), name |-> Str("b")], [name |-> Str("b")]}
OtherDocs == {[name |-> Str("c")]}

\* the documents of the collection queried with a limit, numbered in the
\* order the store streams them, and the limits and offsets asked for
NumberedDoc(n) == [name |-> IF n % 50 = 0 THEN Str("b") ELSE Str("a")]
LimitArgs == {None, Num(0), Num(1), Num(DefaultLimit), Num(DefaultLimit + 1)}
OffsetArgs == {None, Num(1)}
LimitConds == {<<>>, <<Cond("name", Str("a"))>>}

\* the identifiers asked for at once, stored or not, and the collections
\* they are asked from
FetchIds == {"x1", "x2"}
FetchDocs == {[name |-> Str("a")], [name |-> Str("b"), label |-> Str("z")]}
FetchStores == UNION {[held -> FetchDocs] : held \in SUBSET FetchIds}
IdLists ==
    {<<>>} \cup {<<a>> : a \in FetchIds} \cup {<<a, b>> : a \in FetchIds, b \in FetchIds}

\* the stores of nested documents
TreeStores ==
    {[p \in paths |-> [name |-> Str("a")]] :
        paths \in {ps \in SUBSET TreePaths : Cardinality(ps) <= MaxTreeDocs}}

\* the predicates of the queries, and the values assigned before them
CondArgs ==
    { Cond("name", Str("a")), Cond("name", Num(1)), Cond("born_at", Num(1)),
      Cond("born_at", Flt(1)), Cond("born_at", None), Cond("label", Str("a")),
      Cond("kind", Str("fruit")), Cond("legacy", Str("v")), Cond("legacy", Num(1)) }
CondLists ==
    {<<>>} \cup {<<c>> : c \in CondArgs}
        \cup { <<Cond("name", Str("a")), Cond("born_at", Num(1))>>,
               <<Cond("name", Num(1)), Cond("legacy", Str("v"))>>,
               <<Cond("born_at", Flt(1)), Cond("kind", Str("fruit"))>> }
QueriedValues ==
    {Cond("name", Str("a")), Cond("name", Num(1)), Cond("born_at", None),
     Cond("born_at", Num(1)), Cond("born_at", Flt(1))}

\* ---------------------------------------------------------------- actions
Init ==
    /\ store \in {EmptyDict,
                   [d \in {"x1"} |-> [name |-> Str("a"), legacy |-> Str("v"), label |-> Str("z")]]}
    /\ objs = EmptyDict
    /\ now = 1
    /\ last = NoCall
    /\ walk = NoWalk
    /\ heap = <<>>
    /\ meta = NoMeta
    /\ upsert = NoUpsert

\* time passes
Tick ==
    /\ now < MaxTime
    /\ now' = now + 1
    /\ last' = [NoCall EXCEPT !.op = "tick"]
    /\ UNCHANGED <<store, objs, walk, heap, meta, upsert>>

\* Model.create()
Create(s) ==
    /\ objs' = DictSet(objs, s, NewObj(NoneId))
    /\ last' = [NoCall EXCEPT !.op = "create", !.slot = s]
    /\ UNCHANGED <<store, now, walk, heap, meta, upsert>>

\* obj.<k> = v
Assign(s, k, v) ==
    /\ s \in DOMAIN objs
    /\ \E r \in {SetAppValue(k, objs[s], v)} :
          /\ objs' = [objs EXCEPT ![s] = r.obj]
          /\ last' = [NoCall EXCEPT !.op = "assign", !.slot = s, !.res = r.res, !.key = k,
                                    !.value = v]
    /\ UNCHANGED <<store, now, walk, heap, meta, upsert>>

\* Model.get_by_id(id)
GetById(s, id) ==
    /\ IF id \in DOMAIN store
       THEN /\ objs' = DictSet(objs, s, Hydrate(id, store))
            /\ last' = [NoCall EXCEPT !.op = "get_by_id", !.slot = s, !.id = id]
       ELSE /\ objs' = objs
            /\ last' = [NoCall EXCEPT !.op = "get_by_id", !.slot = s, !.id = id,
                                      !.res = "None"]
    /\ UNCHANGED <<store, now, walk, heap, meta, upsert>>

\* Model.get_by_ids(doc_ids)
GetByIds(doc_ids) ==
    /\ \E r \in {GetByIdsRun(doc_ids, store)} :
          last' = [NoCall EXCEPT !.op = "get_by_ids", !.ids = doc_ids, !.res = r.res,
                                 !.matched = r.objs, !.log = r.log]
    /\ UNCHANGED <<store, objs, now, walk, heap, meta, upsert>>

\* Purchase.get_by_id(id), the stored document being doc
GetPurchase(s, id, doc) ==
    /\ objs' = DictSet(objs, s, PurchaseFromDbDict(NewObj(id), doc))
    /\ last' = [NoCall EXCEPT !.op = "get_by_id", !.slot = s, !.id = id]
    /\ UNCHANGED <<store, now, walk, heap, meta, upsert>>

\* Purchase.get_by_id(id), the stored document being doc and the values
\* held by reference
LoadPurchase(s, id, doc) ==
    /\ \E r \in {PurchaseLoad(id, doc)} :
          /\ objs' = DictSet(objs, s, r.obj)
          /\ heap' = r.heap
    /\ last' = [NoCall EXCEPT !.op = "get_by_id", !.slot = s, !.id = id, !.values = doc]
    /\ UNCHANGED <<store, now, walk, meta, upsert>>

\* v = obj.<k> followed by an in-place mutation of v or of a list or dict
\* inside it: cell.append(value) or cell.pop()
MutateRead(s, k, a, append) ==
    /\ s \in DOMAIN objs
    /\ IsRef(GetAppValue(k, objs[s], FALSE))
    /\ a \in Reach(GetAppValue(k, objs[s], FALSE), heap)
    /\ IF append
       THEN /\ Len(heap[a].items) < MaxItems
            /\ heap' = [heap EXCEPT ![a].items = Append(@, Str("new"))]
       ELSE /\ Len(heap[a].items) > 0
            /\ heap' = [heap EXCEPT ![a].items = SubSeq(@, 1, Len(@) - 1)]
    /\ last' = [NoCall EXCEPT !.op = "mutate", !.slot = s, !.key = k, !.id = last.id,
                              !.values = last.values]
    /\ UNCHANGED <<store, objs, now, walk, meta, upsert>>

\* prop._get_change(obj) of property k
ReadChange(s, k) ==
    /\ s \in DOMAIN objs
    /\ last' = [NoCall EXCEPT !.op = "_get_change", !.slot = s, !.key = k, !.id = last.id,
                              !.values = last.values,
                              !.value = GetChangeRef(k, objs[s], heap)]
    /\ UNCHANGED <<store, objs, now, walk, heap, meta, upsert>>

\* `class c(base): <body>`: MetaModel.__init__ runs _fix_up_properties on
\* the new class
DefineClass(c, base, body) ==
    /\ Cardinality(DOMAIN meta.classes) < MaxClasses
    /\ c = ClassOrder[Cardinality(DOMAIN meta.classes) + 1]
    /\ base \in {BaseModel} \cup DOMAIN meta.classes
    /\ \E r \in {FixUpProperties(ClassDict(body, base, meta.classes), 1, meta.name, EmptyDict)} :
          meta' = [name |-> r.name,
                   classes |-> DictSet(meta.classes, c,
                                       [base |-> base, body |-> body, props |-> r.props])]
    /\ last' = [NoCall EXCEPT !.op = "class", !.id = c]
    /\ UNCHANGED <<store, objs, now, walk, heap, upsert>>

\* c.create()
CreateOf(s, c) ==
    /\ c \in DOMAIN meta.classes
    /\ objs' = DictSet(objs, s, [cls |-> c] @@ NewObj(NoneId))
    /\ last' = [NoCall EXCEPT !.op = "create", !.slot = s]
    /\ UNCHANGED <<store, now, walk, heap, meta, upsert>>

\* obj.<attr> = v on an instance of a defined class: the descriptor found
\* on the class stores v under its _name; without a descriptor it is a
\* plain attribute
AssignAttr(s, attr, v) ==
    /\ s \in DOMAIN objs
    /\ "cls" \in DOMAIN objs[s]
    /\ \E d \in {Lookup(objs[s].cls, attr, meta.classes)} :
          IF d = NoName
          THEN /\ objs' = objs
               /\ last' = [NoCall EXCEPT !.op = "assign", !.slot = s, !.key = attr,
                                         !.value = v, !.of = d]
          ELSE IF Required(d) /\ v = None
          THEN /\ objs' = objs
               /\ last' = [NoCall EXCEPT !.op = "assign", !.slot = s, !.key = attr,
                                         !.value = v, !.of = d,
                                         !.res = "FsglueValidationError"]
          ELSE /\ objs' = [objs EXCEPT ![s].vals = DictSet(@, meta.name[d], v)]
               /\ last' = [NoCall EXCEPT !.op = "assign", !.slot = s, !.key = attr,
                                         !.value = v, !.of = d]
    /\ UNCHANGED <<store, now, walk, heap, meta, upsert>>

\* obj.put() on an instance of a defined class, the hooks letting it through
PutOf(s) ==
    /\ s \in DOMAIN objs
    /\ "cls" \in DOMAIN objs[s]
    /\ \E props \in {meta.classes[objs[s].cls].props}, new_id \in NewIds(store) :
          IF ValidateProps(props, objs[s]) # "ok"
          THEN /\ UNCHANGED <<store, objs>>
               /\ last' = [NoCall EXCEPT !.op = "put", !.slot = s, !.id = objs[s].doc_id,
                                         !.res = ValidateProps(props, objs[s])]
          ELSE IF objs[s].doc_id = NoneId
          THEN /\ new_id # NoneId
               /\ store' = StoreAdd(store, new_id, PropsToDbDict(props, objs[s]))
               /\ objs' = [objs EXCEPT ![s].doc_id = new_id]
               /\ last' = [NoCall EXCEPT !.op = "put", !.slot = s, !.id = new_id,
                                         !.created = TRUE, !.written = DOMAIN props,
                                         !.log = <<"validate", "before_put:true", "add",
                                                   "after_put">>]
          ELSE /\ store' = StoreSet(store, objs[s].doc_id, PropsToDbDict(props, objs[s]))
               /\ objs' = objs
               /\ last' = [NoCall EXCEPT !.op = "put", !.slot = s, !.id = objs[s].doc_id,
                                         !.written = DOMAIN props,
                                         !.log = <<"validate", "before_put:true", "set",
                                                   "after_put">>]
    /\ UNCHANGED <<now, walk, heap, meta, upsert>>

\* c.get_by_id(id)
GetOf(s, c, id) ==
    /\ c \in DOMAIN meta.classes
    /\ id \in DOMAIN store
    /\ objs' = DictSet(objs, s, [cls |-> c]
                                  @@ PropsFromDbDict(meta.classes[c].props, NewObj(id), store[id]))
    /\ last' = [NoCall EXCEPT !.op = "get_by_id", !.slot = s, !.id = id]
    /\ UNCHANGED <<store, now, walk, heap, meta, upsert>>

\* an instance cls(doc_id, *parent_ids) of the class with path template t is
\* put: the document is set in the collection the template resolves to
PutNested(t, parent_ids, doc_id) ==
    /\ Cardinality(DOMAIN store) < MaxGroupDocs
    /\ store' = StoreSet(store, DocPath(GetColPathByIds(t, parent_ids), doc_id),
                         [name |-> Str("a")])
    /\ last' = [NoCall EXCEPT !.op = "put", !.template = t, !.parents = parent_ids,
                              !.id = doc_id,
                              !.path = DocPath(GetColPathByIds(t, parent_ids), doc_id),
                              !.log = <<"validate", "before_put:true", "set", "after_put">>]
    /\ UNCHANGED <<objs, now, walk, heap, meta, upsert>>

\* another model class stores a document in a collection of the same id
PutForeign(path) ==
    /\ Cardinality(DOMAIN store) < MaxGroupDocs
    /\ store' = StoreSet(store, path, [name |-> Str("a")])
    /\ last' = [NoCall EXCEPT !.op = "foreign", !.path = path]
    /\ UNCHANGED <<objs, now, walk, heap, meta, upsert>>

\* cls.where([], *parent_ids, collection_id=collection_id) and the same
\* stream, for the class with path template t; fewer documents are stored
\* than the default limit
WhereNested(op, t, parent_ids, collection_id) ==
    /\ last' = [NoCall EXCEPT
                   !.op = op, !.template = t, !.parents = parent_ids,
                   !.collection_id = collection_id,
                   !.matched =
                       IF collection_id # ""
                       THEN {Fetched(t, q, ParentIdsFromPath(t, q), store) :
                                q \in InGroup(collection_id, store)}
                       ELSE {Fetched(t, q, parent_ids, store) :
                                q \in InCollection(GetColPathByIds(t, parent_ids), store)}]
    /\ UNCHANGED <<store, objs, now, walk, heap, meta, upsert>>

\* obj.put() on a Sample, the hooks letting it through: add without an
\* identifier, set with one
PutSample(s) ==
    /\ s \in DOMAIN objs
    /\ SampleValidateFrom(1, objs[s]) = "ok"
    /\ \E new_id \in NewIds(store) :
          IF objs[s].doc_id = NoneId
          THEN /\ new_id # NoneId
               /\ store' = StoreAdd(store, new_id, SampleToDbDict(objs[s], now))
               /\ objs' = [objs EXCEPT ![s].doc_id = new_id]
               /\ last' = [NoCall EXCEPT !.op = "put", !.slot = s, !.id = new_id,
                                         !.created = TRUE, !.written = SampleNames,
                                         !.log = <<"validate", "before_put:true", "add",
                                                   "after_put">>]
          ELSE /\ store' = StoreSet(store, objs[s].doc_id, SampleToDbDict(objs[s], now))
               /\ objs' = objs
               /\ last' = [NoCall EXCEPT !.op = "put", !.slot = s, !.id = objs[s].doc_id,
                                         !.written = SampleNames,
                                         !.log = <<"validate", "before_put:true", "set",
                                                   "after_put">>]
    /\ UNCHANGED <<now, walk, heap, meta, upsert>>

\* Sample.get_by_id(id)
GetSample(s, id) ==
    /\ IF id \in DOMAIN store
       THEN /\ objs' = DictSet(objs, s, SampleFromDbDict(NewObj(id), store[id]))
            /\ last' = [NoCall EXCEPT !.op = "get_by_id", !.slot = s, !.id = id]
       ELSE /\ objs' = objs
            /\ last' = [NoCall EXCEPT !.op = "get_by_id", !.slot = s, !.id = id,
                                      !.res = "None"]
    /\ UNCHANGED <<store, now, walk, heap, meta, upsert>>

\* obj.put(exclude, only)
Put(s, exclude, only, validate_ok, before_ok) ==
    /\ s \in DOMAIN objs
    /\ \E new_id \in NewIds(store) :
        \E r \in {PutRun(objs[s], exclude, only, validate_ok, before_ok, store, now, new_id)} :
           /\ r.res # "StoreFull"
           /\ store' = r.store
           /\ objs' = [objs EXCEPT ![s] = r.obj]
           /\ last' = [NoCall EXCEPT !.op = "put", !.slot = s, !.res = r.res, !.log = r.log,
                                     !.created = r.created, !.exclude = exclude,
                                     !.only = only, !.id = r.obj.doc_id,
                                     !.validate_ok = validate_ok, !.before_ok = before_ok,
                                     !.written = r.written]
    /\ UNCHANGED <<now, walk, heap, meta, upsert>>

\* the common shape of the three *_by_dict calls
ByDict(op, s, r, values, exclude, only, without_put, validate_ok, before_ok) ==
    /\ r.res # "StoreFull"
    /\ store' = r.store
    /\ objs' = IF r.ret THEN DictSet(objs, s, r.obj) ELSE objs
    /\ last' = [NoCall EXCEPT !.op = op, !.slot = s, !.res = r.res, !.log = r.log,
                              !.created = r.created, !.exclude = exclude, !.only = only,
                              !.id = IdOf(values), !.validate_ok = validate_ok,
                              !.before_ok = before_ok, !.values = values,
                              !.without_put = without_put, !.written = r.written,
                              !.existed = Exists(IdOf(values), store)]
    /\ UNCHANGED <<now, walk, heap, meta, upsert>>

\* Model.create_by_dict(values, exclude, only, without_put)
CreateByDict(s, values, exclude, only, without_put, validate_ok, before_ok) ==
    \E new_id \in NewIds(store) :
        \E r \in {CreateByDictRun(values, exclude, only, without_put, validate_ok, before_ok,
                                  store, now, new_id)} :
            ByDict("create_by_dict", s, r, values, exclude, only, without_put, validate_ok,
                   before_ok)

\* Model.update_by_dict(values, exclude, only, without_put)
UpdateByDict(s, values, exclude, only, without_put, validate_ok, before_ok) ==
    \E new_id \in NewIds(store) :
        \E r \in {UpdateByDictRun(values, exclude, only, without_put, validate_ok, before_ok,
                                  store, now, new_id)} :
            ByDict("update_by_dict", s, r, values, exclude, only, without_put, validate_ok,
                   before_ok)

\* Model.upsert_by_dict(values, exclude, only, without_put)
UpsertByDict(s, values, exclude, only, without_put, validate_ok, before_ok) ==
    \E new_id \in NewIds(store) :
        \E r \in {UpsertByDictRun(values, exclude, only, without_put, validate_ok, before_ok,
                                  store, now, new_id)} :
            ByDict("upsert_by_dict", s, r, values, exclude, only, without_put, validate_ok,
                   before_ok)

\* faulty variant: delete goes on whatever before_delete returns
DeleteProceedsUnhooked(deletable, before_ok) == deletable

\* `if self.is_deletable() and self.before_delete():`
DeleteProceeds(deletable, before_ok) == deletable /\ before_ok

\* obj.delete(); deletable and before_ok are what the is_deletable() and
\* before_delete() hooks return
Delete(s, deletable, before_ok) ==
    /\ s \in DOMAIN objs
    /\ IF DeleteProceeds(deletable, before_ok)
       THEN /\ store' = StoreDelete(store, objs[s].doc_id)
            /\ last' = [NoCall EXCEPT !.op = "delete", !.slot = s, !.id = objs[s].doc_id,
                                      !.deletable = deletable, !.before_ok = before_ok,
                                      !.existed = Exists(objs[s].doc_id, store),
                                      !.log = <<"is_deletable", "before_delete", "delete",
                                                "after_delete">>]
       ELSE /\ store' = store
            /\ last' = [NoCall EXCEPT !.op = "delete", !.slot = s, !.id = objs[s].doc_id,
                                      !.deletable = deletable, !.before_ok = before_ok,
                                      !.existed = Exists(objs[s].doc_id, store),
                                      !.log = IF deletable
                                              THEN <<"is_deletable", "before_delete">>
                                              ELSE <<"is_deletable">>]
    /\ UNCHANGED <<objs, now, walk, heap, meta, upsert>>

\* a new instance is put: the store adds the next document of the collection
PutNumbered ==
    /\ Len(store) < MaxStored
    /\ store' = Append(store, NumberedDoc(Len(store) + 1))
    /\ last' = [NoCall EXCEPT !.op = "put", !.created = TRUE,
                              !.log = <<"validate", "before_put:true", "add", "after_put">>]
    /\ UNCHANGED <<objs, now, walk, heap, meta, upsert>>

\* cls.where(conds, limit=limit, offset=offset)
WhereLimit(conds, limit, offset) ==
    /\ last' = [NoCall EXCEPT !.op = "where", !.conds = conds, !.limit = limit,
                              !.offset = offset, !.handed = HandedAll(conds),
                              !.ids = WhereRun(conds, limit, offset, store)]
    /\ UNCHANGED <<store, objs, now, walk, heap, meta, upsert>>

\* cls.where(conds): the limit is the default
WhereDefault(conds) ==
    /\ last' = [NoCall EXCEPT !.op = "where", !.conds = conds, !.limit = Num(DefaultLimit),
                              !.handed = HandedAll(conds),
                              !.ids = WhereRun(conds, Num(DefaultLimit), None, store)]
    /\ UNCHANGED <<store, objs, now, walk, heap, meta, upsert>>

\* cls.all(): where([]) with the default limit
AllDefault ==
    /\ last' = [NoCall EXCEPT !.op = "all", !.limit = Num(DefaultLimit),
                              !.ids = WhereRun(<<>>, Num(DefaultLimit), None, store)]
    /\ UNCHANGED <<store, objs, now, walk, heap, meta, upsert>>

\* cls.all(limit=limit)
AllLimit(limit) ==
    /\ last' = [NoCall EXCEPT !.op = "all", !.limit = limit,
                              !.ids = WhereRun(<<>>, limit, None, store)]
    /\ UNCHANGED <<store, objs, now, walk, heap, meta, upsert>>

\* cls.stream(conds=conds), read to its end
StreamAll(conds) ==
    /\ last' = [NoCall EXCEPT !.op = "stream", !.conds = conds, !.handed = HandedAll(conds),
                              !.ids = StreamRun(conds, store)]
    /\ UNCHANGED <<store, objs, now, walk, heap, meta, upsert>>

\* upsert_by_dict(values), first store call: cls.exists(doc_id)
UpsertExists(s, values) ==
    /\ upsert.pc = "idle"
    /\ IF IdOf(values) = NoneId
       THEN /\ upsert' = upsert
            /\ last' = [NoCall EXCEPT !.op = "upsert_by_dict", !.slot = s, !.values = values,
                                      !.res = "FsglueValidationError"]
       ELSE /\ upsert' = [NoUpsert EXCEPT
                             !.pc = IF Exists(IdOf(values), store) THEN "update" ELSE "create",
                             !.slot = s, !.values = values]
            /\ last' = [NoCall EXCEPT !.op = "exists", !.slot = s, !.values = values,
                                      !.id = IdOf(values),
                                      !.existed = Exists(IdOf(values), store)]
    /\ UNCHANGED <<store, objs, now, walk, heap, meta>>

\* how an upsert_by_dict in progress ends with outcome r on branch b
UpsertEnds(r, b) ==
    /\ store' = r.store
    /\ objs' = IF r.ret THEN DictSet(objs, upsert.slot, r.obj) ELSE objs
    /\ last' = [NoCall EXCEPT !.op = "upsert_by_dict", !.slot = upsert.slot,
                              !.values = upsert.values, !.id = IdOf(upsert.values),
                              !.res = r.res, !.log = r.log, !.created = r.created,
                              !.written = r.written, !.branch = b,
                              !.existed = Exists(IdOf(upsert.values), store)]
    /\ upsert' = NoUpsert
    /\ UNCHANGED <<now, walk, heap, meta>>

\* update_by_dict called by upsert_by_dict, its store call: cls.get_by_id
UpsertLookup ==
    /\ upsert.pc = "update"
    /\ \E doc_id \in {IdOf(upsert.values)} :
          IF doc_id \notin DOMAIN store
          THEN UpsertEnds([Raised("FsglueDocumentNotFound", store) EXCEPT !.log = <<"get">>],
                          "update")
          ELSE \E filled \in {FromDict(Hydrate(doc_id, store),
                                       FilterValues(upsert.values, {}, OnlyNone))} :
                  IF filled.res # "ok"
                  THEN UpsertEnds(Raised(filled.res, store), "update")
                  ELSE /\ upsert' = [upsert EXCEPT !.pc = "write", !.obj = filled.obj]
                       /\ last' = [NoCall EXCEPT !.op = "get_by_id", !.slot = upsert.slot,
                                                 !.id = doc_id]
                       /\ UNCHANGED <<store, objs, now, walk, heap, meta>>

\* update_by_dict called by upsert_by_dict, its last store call: obj.put()
UpsertWrite ==
    /\ upsert.pc = "write"
    /\ \E new_id \in NewIds(store) :
          \E r \in {PutRun(upsert.obj, {}, OnlyNone, TRUE, TRUE, store, now, new_id)} :
              UpsertEnds([ret |-> r.res = "ok"] @@ r, "update")

\* create_by_dict called by upsert_by_dict, whose only store call is put's
UpsertCreate ==
    /\ upsert.pc = "create"
    /\ \E new_id \in NewIds(store) :
          \E r \in {CreateByDictRun(upsert.values, {}, OnlyNone, FALSE, TRUE, TRUE, store, now,
                                     new_id)} :
              UpsertEnds(r, "create")

\* another client deletes the document
OtherDelete(id) ==
    /\ id \in DOMAIN store
    /\ store' = StoreDelete(store, id)
    /\ last' = [NoCall EXCEPT !.op = "other_delete", !.id = id]
    /\ UNCHANGED <<objs, now, walk, heap, meta, upsert>>

\* another client creates the document
OtherCreate(id, doc) ==
    /\ id \notin DOMAIN store
    /\ store' = StoreSet(store, id, doc)
    /\ last' = [NoCall EXCEPT !.op = "other_create", !.id = id]
    /\ UNCHANGED <<objs, now, walk, heap, meta, upsert>>

\* prop._validate(value, obj) on a property configured as cfg
ValidateValue(cfg, value) ==
    /\ \E r \in {ValidateChecks(cfg, value)} :
          last' = [NoCall EXCEPT !.op = "_validate", !.res = r.res, !.of = r.of,
                                  !.log = r.calls, !.cfg = cfg, !.value = value]
    /\ UNCHANGED <<store, objs, now, walk, heap, meta, upsert>>

\* Model.where(conds) / Model.stream(conds=conds): op names the call
Where(op, conds) ==
    /\ \E filters \in {HandedAll(conds)} :
          last' = [NoCall EXCEPT !.op = op, !.conds = conds, !.handed = filters,
                                  !.matched = Matching(filters, store)]
    /\ UNCHANGED <<store, objs, now, walk, heap, meta, upsert>>

\* Room.get_by_id(id) in a store of nested documents
GetRoom(s, id) ==
    /\ walk.pc # "running"
    /\ <<id>> \in DOMAIN store
    /\ objs' = DictSet(objs, s, FromDbDict(NewObj(id), store[<<id>>]))
    /\ last' = [NoCall EXCEPT !.op = "get_by_id", !.slot = s, !.id = id]
    /\ UNCHANGED <<store, now, walk, heap, meta, upsert>>

\* obj.delete_all(), up to the first call of _delete_doc_recursive
DeleteAll(s, deletable, before_ok) ==
    /\ walk.pc # "running"
    /\ s \in DOMAIN objs
    /\ LET target == <<objs[s].doc_id>>
           w == [NoWalk EXCEPT !.target = target, !.before = DOMAIN store,
                               !.deletable = deletable, !.before_ok = before_ok]
       IN IF DeleteProceeds(deletable, before_ok)
          THEN walk' = [w EXCEPT !.pc = "running", !.stack = <<Frame(target, store)>>]
          ELSE walk' = [w EXCEPT !.pc = "done"]
    /\ last' = [NoCall EXCEPT !.op = "delete_all", !.slot = s, !.id = objs[s].doc_id,
                              !.deletable = deletable, !.before_ok = before_ok,
                              !.log = IF deletable THEN <<"is_deletable", "before_delete">>
                                      ELSE <<"is_deletable">>]
    /\ UNCHANGED <<store, objs, now, heap, meta, upsert>>

\* _delete_doc_recursive: the loops reach the next child and recurse into it
Descend ==
    /\ walk.pc = "running"
    /\ LET n == Len(walk.stack)
           top == walk.stack[n]
       IN /\ top.todo # <<>>
          /\ walk' = [walk EXCEPT !.stack = Append([walk.stack EXCEPT ![n].todo = Tail(top.todo)],
                                                    Frame(Head(top.todo), store))]
    /\ UNCHANGED <<store, objs, now, last, heap, meta, upsert>>

\* _delete_doc_recursive: the loops are over, doc.delete() and return; the
\* outermost return is followed by after_delete()
DeleteDoc ==
    /\ walk.pc = "running"
    /\ LET n == Len(walk.stack)
           top == walk.stack[n]
       IN /\ top.todo = <<>>
          /\ store' = StoreDelete(store, top.doc)
          /\ walk' = [walk EXCEPT !.stack = SubSeq(walk.stack, 1, n - 1),
                                  !.log = Append(walk.log, top.doc),
                                  !.pc = IF n = 1 THEN "done" ELSE "running"]
          /\ last' = IF n = 1 THEN [last EXCEPT !.log = last.log \o <<"delete", "after_delete">>]
                      ELSE last
    /\ UNCHANGED <<objs, now, heap, meta, upsert>>

Next ==
    \/ Tick
    \/ \E s \in Slots : Create(s)
    \/ \E s \in Slots, k \in AssignKeys, v \in AssignValues : Assign(s, k, v)
    \/ \E s \in Slots, id \in DocIds : GetById(s, id)
    \/ \E s \in Slots, exclude \in ExcludeArgs, only \in OnlyArgs, m \in PutModes :
            Put(s, exclude, only, m.validate_ok, m.before_ok)
    \/ \E s \in Slots, deletable \in BOOLEAN, before_ok \in BOOLEAN :
            Delete(s, deletable, before_ok)

Spec == Init /\ [][Next]_vars

\* the dict-based calls, on instances the calls themselves return
NextDict ==
    \/ \E s \in Slots, id \in DocIds : GetById(s, id)
    \/ \E s \in Slots, c \in DictCalls, m \in DictModes :
            CreateByDict(s, c.values, c.exclude, c.only, m.without_put, m.validate_ok, m.before_ok)
    \/ \E s \in Slots, c \in DictCalls, m \in DictModes :
            UpdateByDict(s, c.values, c.exclude, c.only, m.without_put, m.validate_ok, m.before_ok)
    \/ \E s \in Slots, c \in DictCalls, m \in DictModes :
            UpsertByDict(s, c.values, c.exclude, c.only, m.without_put, m.validate_ok, m.before_ok)
    \/ \E s \in Slots, deletable \in BOOLEAN, before_ok \in BOOLEAN :
            Delete(s, deletable, before_ok)

SpecDict == Init /\ [][NextDict]_vars

\* assignments to the Json properties of Purchase instances
NextJson ==
    \/ \E s \in Slots : Create(s)
    \/ \E s \in Slots, id \in DocIds, doc \in PurchaseDocs : GetPurchase(s, id, doc)
    \/ \E s \in Slots, k \in PurchaseNames, v \in PurchaseValues : Assign(s, k, v)

SpecJson == Init /\ [][NextJson]_vars

\* queries over documents put after plain assignments
NextWhere ==
    \/ \E s \in Slots : Create(s)
    \/ \E s \in Slots, c \in QueriedValues : Assign(s, c.field, c.value)
    \/ \E s \in Slots : Put(s, {}, OnlyNone, TRUE, TRUE)
    \/ \E op \in {"where", "stream"}, conds \in CondLists : Where(op, conds)

SpecWhere == Init /\ [][NextWhere]_vars

\* delete_all over nested documents, with no other writer
InitTree ==
    /\ store \in TreeStores
    /\ objs = EmptyDict
    /\ now = 1
    /\ last = NoCall
    /\ walk = NoWalk
    /\ heap = <<>>
    /\ meta = NoMeta
    /\ upsert = NoUpsert

NextTree ==
    \/ \E s \in Slots, id \in RootIds : GetRoom(s, id)
    \/ \E s \in Slots, deletable \in BOOLEAN, before_ok \in BOOLEAN :
            DeleteAll(s, deletable, before_ok)
    \/ Descend
    \/ DeleteDoc

\* a delete_all that was called runs on until it returns
SpecTree == InitTree /\ [][NextTree]_vars /\ WF_vars(Descend \/ DeleteDoc)

\* validation of single values, for every property configuration
NextValidate == \E cfg \in PropCfgs, value \in ProbeValues : ValidateValue(cfg, value)

SpecValidate == Init /\ [][NextValidate]_vars

\* one Sample: created, assigned a few of its properties, put and fetched
InitRound ==
    /\ store = EmptyDict
    /\ objs = EmptyDict
    /\ now = 1
    /\ last = NoCall
    /\ walk = NoWalk
    /\ heap = <<>>
    /\ meta = NoMeta
    /\ upsert = NoUpsert

NextRound ==
    \/ \E s \in Slots : store = EmptyDict /\ Create(s)
    \/ \E s \in Slots, k \in SampleNames :
            /\ s \in DOMAIN objs
            /\ objs[s].doc_id = NoneId
            /\ k \in DOMAIN objs[s].vals \/ Cardinality(DOMAIN objs[s].vals) < MaxAssigned
            /\ \E v \in RoundValues(k) : Assign(s, k, v)
    \/ \E s \in Slots : PutSample(s)
    \/ \E s \in Slots, id \in DocIds : GetSample(s, id)

SpecRound == InitRound /\ [][NextRound]_vars

\* a loaded Purchase whose values the application mutates in place
NextAlias ==
    \/ \E s \in Slots, id \in DocIds, doc \in NestedDocs : LoadPurchase(s, id, doc)
    \/ \E s \in Slots, k \in PurchaseNames, a \in 1..Len(heap), append \in BOOLEAN :
            MutateRead(s, k, a, append)
    \/ \E s \in Slots, k \in PurchaseNames : ReadChange(s, k)

SpecAlias == Init /\ [][NextAlias]_vars

\* class definitions, and instances of the classes defined
InitClass ==
    /\ store \in {EmptyDict, [d \in {"x1"} |-> [x |-> Str("a"), y |-> Str("b")]]}
    /\ objs = EmptyDict
    /\ now = 1
    /\ last = NoCall
    /\ walk = NoWalk
    /\ heap = <<>>
    /\ meta = NoMeta
    /\ upsert = NoUpsert

NextClass ==
    \/ \E c \in ClassIds, base \in {BaseModel} \cup DOMAIN meta.classes, body \in Bodies :
            DefineClass(c, base, body)
    \/ \E s \in Slots, c \in DOMAIN meta.classes : CreateOf(s, c)
    \/ \E s \in Slots, attr \in AttrNames : AssignAttr(s, attr, Str("a"))
    \/ \E s \in Slots : PutOf(s)
    \/ \E s \in Slots, c \in DOMAIN meta.classes, id \in DocIds : GetOf(s, c, id)

SpecClass == InitClass /\ [][NextClass]_vars

\* documents in nested collections, queried by collection and by group
InitGroup ==
    /\ store = EmptyDict
    /\ objs = EmptyDict
    /\ now = 1
    /\ last = NoCall
    /\ walk = NoWalk
    /\ heap = <<>>
    /\ meta = NoMeta
    /\ upsert = NoUpsert

NextGroup ==
    \/ \E t \in Templates : \E parent_ids \in ParentTuples(t), doc_id \in GroupDocIds :
            PutNested(t, parent_ids, doc_id)
    \/ \E path \in ForeignPaths : PutForeign(path)
    \/ \E op \in {"where", "stream"}, t \in Templates, collection_id \in {"", "messages", "page"} :
            \E parent_ids \in ParentTuples(t) : WhereNested(op, t, parent_ids, collection_id)

SpecGroup == InitGroup /\ [][NextGroup]_vars

\* documents fetched one at a time and several at once
InitFetch ==
    /\ store \in FetchStores
    /\ objs = EmptyDict
    /\ now = 1
    /\ last = NoCall
    /\ walk = NoWalk
    /\ heap = <<>>
    /\ meta = NoMeta
    /\ upsert = NoUpsert

NextFetch ==
    \/ \E s \in Slots, id \in FetchIds : GetById(s, id)
    \/ \E doc_ids \in IdLists : GetByIds(doc_ids)
    \/ \E s \in Slots, deletable \in BOOLEAN, before_ok \in BOOLEAN :
            Delete(s, deletable, before_ok)

SpecFetch == InitFetch /\ [][NextFetch]_vars

\* an upsert_by_dict whose store calls other clients interleave with
NextUpsert ==
    \/ Tick
    \/ \E s \in Slots, values \in UpsertValues : UpsertExists(s, values)
    \/ UpsertLookup
    \/ UpsertWrite
    \/ UpsertCreate
    \/ \E id \in DocIds : OtherDelete(id)
    \/ \E id \in DocIds, doc \in OtherDocs : OtherCreate(id, doc)

SpecUpsert == Init /\ [][NextUpsert]_vars

\* queries with and without a limit over a collection that grows
InitLimit ==
    /\ store = <<>>
    /\ objs = EmptyDict
    /\ now = 1
    /\ last = NoCall
    /\ walk = NoWalk
    /\ heap = <<>>
    /\ meta = NoMeta
    /\ upsert = NoUpsert

NextLimit ==
    \/ PutNumbered
    \/ \E conds \in LimitConds, limit \in LimitArgs, offset \in OffsetArgs :
            WhereLimit(conds, limit, offset)
    \/ \E conds \in LimitConds : WhereDefault(conds)
    \/ AllDefault
    \/ \E limit \in LimitArgs : AllLimit(limit)
    \/ \E conds \in LimitConds : StreamAll(conds)

SpecLimit == InitLimit /\ [][NextLimit]_vars

\* ================================================================= claims
Writes == {"add", "set", "update"}
LogHas(log, e) == \E n \in 1..Len(log) : log[n] = e
NoWrite(log) == \A e \in Writes : ~LogHas(log, e)
\* the instance the last call was made on, or returned
LastObj == objs[last.slot]
HasNullRequired(obj) ==
    \E k \in PropNames : PropDef(k).required /\ GetAppValue(k, obj, FALSE) = None

\* C1: a put whose before_put hook returns false issues no store write (no
\* add, set or update), leaves the store and the instance's doc_id as they
\* were, and does not invoke after_put.
C1_VetoedPutWritesNothing ==
    [][(last'.op = "put" /\ last'.res = "ok" /\ ~last'.before_ok) =>
          /\ store' = store
          /\ objs'[last'.slot].doc_id = objs[last'.slot].doc_id
          /\ NoWrite(last'.log)
          /\ ~LogHas(last'.log, "after_put")]_vars

\* a put vetoed by before_put on an instance whose document is stored
C1_Witness ==
    /\ last.op = "put" /\ last.res = "ok" /\ ~last.before_ok
    /\ LogHas(last.log, "before_put:false")
    /\ LastObj.doc_id \in DOMAIN store

\* C2: put on an instance with a required property whose application-facing
\* value is null raises a validation error and issues no store write, so the
\* store is unchanged.
C2_NullRequiredRejected ==
    [][(last'.op = "put" /\ HasNullRequired(objs[last'.slot])) =>
          /\ last'.res = "FsglueValidationError"
          /\ NoWrite(last'.log)
          /\ store' = store]_vars

\* a put rejected for a null required property while its document is stored
C2_Witness ==
    /\ last.op = "put" /\ last.res = "FsglueValidationError"
    /\ HasNullRequired(LastObj)
    /\ LastObj.doc_id \in DOMAIN store

AllValidated == [n \in 1..Len(PropOrder) |-> "_validate:" \o PropOrder[n]]

\* C3: a put that completes without error validates every declared property,
\* then calls the validate hook, then before_put, then (unless vetoed) makes
\* exactly one store write and calls after_put last; in every put a store
\* write directly follows before_put returning true and after_put directly
\* follows the store write.
C3_PutOrder ==
    last.op = "put" =>
        /\ last.res = "ok" =>
              \/ last.log = AllValidated \o <<"validate", "before_put:false">>
              \/ \E w \in Writes :
                    last.log = AllValidated \o <<"validate", "before_put:true", w, "after_put">>
        /\ \A n \in 1..Len(last.log) :
              /\ last.log[n] \in Writes => n > 1 /\ last.log[n - 1] = "before_put:true"
              /\ last.log[n] = "after_put" => n > 1 /\ last.log[n - 1] \in Writes

\* a put that wrote and called after_put
C3_Witness == last.op = "put" /\ last.res = "ok" /\ LogHas(last.log, "after_put")

DocOf(st, id) == IF id \in DOMAIN st THEN st[id] ELSE EmptyDict
SameField(d1, d2, f) ==
    /\ (f \in DOMAIN d1) = (f \in DOMAIN d2)
    /\ f \in DOMAIN d1 => d1[f] = d2[f]

\* C4 (as claimed): a put that proceeds adds a document when the instance has
\* no identifier, and doc_id becomes the identifier the store assigned;
\* otherwise it issues a partial update if exclude is non-empty or only is
\* given, and a full replace (set) if not.
C4_WriteSelection ==
    [][(last'.op = "put" /\ ~NoWrite(last'.log)) =>
          IF objs[last'.slot].doc_id = NoneId
          THEN /\ LogHas(last'.log, "add")
               /\ objs'[last'.slot].doc_id \in (DOMAIN store') \ (DOMAIN store)
          ELSE IF last'.exclude # {} \/ last'.only.given
               THEN LogHas(last'.log, "update")
               ELSE LogHas(last'.log, "set")]_vars

\* C5 (as claimed): whenever after_put is invoked, by put or through
\* create_by_dict / update_by_dict / upsert_by_dict, its created argument is
\* true exactly when no document with the instance's identifier was in the
\* store before the call.
C5_CreatedIffNew ==
    [][(last'.op \in {"put", "create_by_dict", "update_by_dict", "upsert_by_dict"}
          /\ LogHas(last'.log, "after_put")) =>
          (last'.created <=> objs'[last'.slot].doc_id \notin DOMAIN store)]_vars

\* C6 (as claimed): for an instance that has an identifier, a put with an
\* explicit field list (only) leaves every stored field not named in the
\* list as it was, and a put with no field restriction leaves the stored
\* document equal to the fields written from the instance.
C6_PartialVsReplace ==
    [][(last'.op = "put" /\ last'.res = "ok" /\ ~NoWrite(last'.log)
          /\ objs[last'.slot].doc_id # NoneId) =>
          LET id == objs[last'.slot].doc_id
              before == DocOf(store, id)
              after == DocOf(store', id)
          IN /\ last'.only.given =>
                   \A f \in ((DOMAIN before) \cup (DOMAIN after)) \ last'.only.keys :
                       SameField(before, after, f)
             /\ (~last'.only.given /\ last'.exclude = {}) =>
                   after = ToDbDict(objs[last'.slot], {}, OnlyNone, now)]_vars

\* the properties whose loaded value is kept (from_db_value does not answer
\* SET_NOTHING)
Loadable(k) == ~PropDef(k).is_virtual /\ PropDef(k).kind \in {"String", "Timestamp"}

\* C7 (as claimed): immediately after a successful put the intact value of
\* every written property equals the application-facing value of what was
\* just written to the store.
C7_IntactIsLastWritten ==
    (last.op = "put" /\ LogHas(last.log, "after_put")) =>
        \A k \in ToDbDictKeys(last.exclude, last.only) :
            Loadable(k) =>
                GetAppValue(k, LastObj, TRUE)
                    = to_app_value(k, from_db_value(k, store[LastObj.doc_id][k], LastObj), LastObj)

\* C7 (amended): the intact value of a property is the application-facing
\* value of what the instance last read from the store: hydration captures
\* it for exactly the loadable properties present in the document, and
\* neither an assignment nor a put changes it.
C7_IntactIsLastLoaded ==
    [][/\ (last'.op = "get_by_id" /\ last'.res = "ok") =>
            \A k \in PropNames :
                LET o == objs'[last'.slot]
                    doc == store[last'.id]
                IN /\ (IntactKey(k) \in DOMAIN o.vals) = (Loadable(k) /\ k \in DOMAIN doc)
                   /\ (Loadable(k) /\ k \in DOMAIN doc) =>
                         GetAppValue(k, o, TRUE) = to_app_value(k, from_db_value(k, doc[k], o), o)
       /\ last'.op \in {"put", "assign"} =>
            \A k \in PropNames :
                SameField(objs[last'.slot].vals, objs'[last'.slot].vals, IntactKey(k))]_vars

\* a put has written a name that differs from the loaded one, and the intact
\* value is still the loaded one
C7_Witness ==
    /\ last.op = "put" /\ LogHas(last.log, "after_put")
    /\ IntactKey("name") \in DOMAIN LastObj.vals
    /\ GetAppValue("name", LastObj, TRUE) # GetAppValue("name", LastObj, FALSE)
    /\ store[LastObj.doc_id]["name"] = GetAppValue("name", LastObj, FALSE)

\* C8 (as claimed): once the auto_now_add field of a document is stamped, no
\* later put of that document changes its stored value.
C8_CreatedAtStampedOnce ==
    [][(last'.op = "put" /\ last'.res = "ok"
          /\ DictGet(DocOf(store, objs[last'.slot].doc_id), "created_at") # None
          /\ objs[last'.slot].doc_id \in DOMAIN store') =>
          DictGet(store'[objs[last'.slot].doc_id], "created_at")
              = DictGet(store[objs[last'.slot].doc_id], "created_at")]_vars

\* C9 (as claimed): after every write of a put (add, set or update) the
\* auto_now field of the stored document holds the time of the write.
C9_UpdatedAtStampedOnEveryWrite ==
    (last.op = "put" /\ LogHas(last.log, "after_put")) =>
        DictGet(store[LastObj.doc_id], "updated_at") = Dt(now)

NoOpProps ==
    {k \in PropNames :
        \/ PropDef(k).kind \in {"Computed", "Constant"}
        \/ PropDef(k).kind = "Timestamp" /\ (PropDef(k).auto_now \/ PropDef(k).auto_now_add)}

\* C10: an assignment that passes validation to a Computed, a Constant or an
\* auto_now / auto_now_add Timestamp property leaves the instance's internal
\* values unchanged, and the property reads as it did before.
C10_AssignIsNoOp ==
    [][(last'.op = "assign" /\ last'.res = "ok" /\ last'.key \in NoOpProps) =>
          /\ objs'[last'.slot].vals = objs[last'.slot].vals
          /\ GetAppValue(last'.key, objs'[last'.slot], FALSE)
                = GetAppValue(last'.key, objs[last'.slot], FALSE)]_vars

\* a value was assigned to an auto_now timestamp that reads differently
C10_Witness ==
    /\ last.op = "assign" /\ last.res = "ok" /\ last.key = "updated_at"
    /\ last.value = Num(1)
    /\ GetAppValue("updated_at", LastObj, FALSE) # Num(1)

\* the checks of _validate that reject value under cfg, each taken alone
Fails(check, cfg, value) ==
    CASE check = "choices" -> cfg.has_choices /\ value \notin cfg.choices
      [] check = "required" -> cfg.required /\ value = None
      [] check = "schema" ->
            SchemaTruthy(cfg.schema) /\ value # None /\ ~JsonschemaValid(value, cfg.schema)
      [] check = "validator" -> cfg.validator.given /\ value \in cfg.validator.rejects
CheckOrder == <<"choices", "required", "schema", "validator">>

\* C11: validation runs its checks in the order choices, required, schema
\* (only on a non-null value), validator: it raises the error of the first
\* check in that order that rejects the value, evaluates no check after it,
\* and passes when no check rejects the value.
C11_FirstFailureWins ==
    last.op = "_validate" =>
        /\ \A n \in 1..4 :
              (Fails(CheckOrder[n], last.cfg, last.value)
                  /\ \A m \in 1..(n - 1) : ~Fails(CheckOrder[m], last.cfg, last.value)) =>
                  /\ last.res # "ok" /\ last.of = CheckOrder[n]
                  /\ \A m \in (n + 1)..4 : ~LogHas(last.log, CheckOrder[m])
        /\ (\A n \in 1..4 : ~Fails(CheckOrder[n], last.cfg, last.value)) => last.res = "ok"
        /\ \A i, j \in 1..Len(last.log) :
              i < j => \E n, m \in 1..4 :
                          n < m /\ last.log[i] = CheckOrder[n] /\ last.log[j] = CheckOrder[m]
        /\ LogHas(last.log, "schema") => last.value # None

\* a value that both the required check and the validator reject: the
\* required check raised and the validator was not evaluated
C11_Witness ==
    /\ last.op = "_validate" /\ last.of = "required"
    /\ Fails("validator", last.cfg, last.value)
    /\ ~LogHas(last.log, "validator")

\* C12: an assignment whose value fails validation raises the validation
\* error and leaves the instance as it was (the property's internal value and
\* its intact value included), and the store is not written.
C12_RejectedAssignChangesNothing ==
    [][(last'.op = "assign"
          /\ ValidateChecks(PropDef(last'.key), last'.value).res # "ok") =>
          /\ last'.res = "FsglueValidationError"
          /\ objs' = objs
          /\ store' = store]_vars

\* an empty list was assigned to the items of a loaded Purchase and refused
C12_Witness ==
    /\ last.op = "assign" /\ last.key = "items" /\ last.value = Lst(<<>>)
    /\ last.res = "FsglueValidationError"
    /\ IntactKey("items") \in DOMAIN LastObj.vals
    /\ GetAppValue("items", LastObj, FALSE) = Lst(<<"pear">>)

\* C13: delete removes the backing document and then calls after_delete if
\* and only if is_deletable and before_delete both return true; if either
\* returns false the store is left as it was and after_delete is not called;
\* after a delete that proceeds exists(doc_id) is false.
C13_DeleteIffBothHooks ==
    [][last'.op = "delete" =>
          IF last'.deletable /\ last'.before_ok
          THEN /\ store' = StoreDelete(store, objs[last'.slot].doc_id)
               /\ ~Exists(objs[last'.slot].doc_id, store')
               /\ \E n \in 1..Len(last'.log) :
                     /\ last'.log[n] = "delete"
                     /\ n + 1 = Len(last'.log)
                     /\ last'.log[n + 1] = "after_delete"
          ELSE /\ store' = store
               /\ ~LogHas(last'.log, "delete")
               /\ ~LogHas(last'.log, "after_delete")]_vars

\* a delete that proceeded on a stored document: after_delete was called and
\* the document is gone
C13_Witness ==
    /\ last.op = "delete" /\ last.existed
    /\ last.deletable /\ last.before_ok
    /\ LogHas(last.log, "after_delete") /\ ~Exists(last.id, store)

\* every delete issued so far came after the deletes of all documents that
\* were stored below the deleted one
PostOrder ==
    \A i \in 1..Len(walk.log) :
        \A q \in walk.before :
            (IsPrefix(walk.log[i], q) /\ q # walk.log[i]) =>
                \E j \in 1..(i - 1) : walk.log[j] = q
\* neither the target nor a document below it is stored
TargetGone == Under(walk.target, store) = {}

\* C14 (as claimed): delete_all terminates, deletes every document only
\* after all the documents in its own subcollections, and ends with neither
\* the target nor any descendant document in the store.
C14_DeleteAllRemovesTree ==
    /\ [](walk.pc \in {"running", "done"} => PostOrder)
    /\ [](walk.pc = "done" => TargetGone)
    /\ (walk.pc = "running") ~> (walk.pc = "done")

\* C14 (amended): a delete_all whose is_deletable and before_delete hooks
\* both return true terminates, deletes every document only after all the
\* documents below it, and ends with neither the target nor any descendant
\* in the store; if either hook returns false nothing is deleted.
C14_ProceedingDeleteAllRemovesTree ==
    /\ [](walk.pc \in {"running", "done"} => PostOrder)
    /\ []((walk.pc = "done" /\ walk.deletable /\ walk.before_ok) =>
              /\ TargetGone
              /\ DOMAIN store = walk.before \ {q \in walk.before : IsPrefix(walk.target, q)}
              /\ walk.log[Len(walk.log)] = walk.target)
    /\ []((walk.pc = "done" /\ ~(walk.deletable /\ walk.before_ok)) =>
              /\ DOMAIN store = walk.before
              /\ walk.log = <<>>)
    /\ (walk.pc = "running") ~> (walk.pc = "done")

\* a delete_all that removed a target with documents two levels below it,
\* under a child that was not itself stored
C14_Witness ==
    /\ walk.pc = "done" /\ walk.deletable /\ walk.before_ok
    /\ walk.target = <<"x1">>
    /\ {<<"x1">>, <<"x1", "m1", "m2">>} \subseteq walk.before
    /\ <<"x1", "m1">> \notin walk.before
    /\ TargetGone

\* C15: for an identifier with no document in the store, get_by_id returns
\* None without raising, and update_by_dict raises the document-not-found
\* error and leaves the store unchanged (it does not create the document).
C15_MissingDocument ==
    [][/\ (last'.op = "get_by_id" /\ ~Exists(last'.id, store)) =>
            /\ last'.res = "None"
            /\ store' = store
       /\ (last'.op = "update_by_dict" /\ last'.id # NoneId /\ ~Exists(last'.id, store)) =>
            /\ last'.res = "FsglueDocumentNotFound"
            /\ store' = store
            /\ objs' = objs]_vars

\* update_by_dict was called with the id of a document that is not stored
C15_Witness ==
    /\ last.op = "update_by_dict" /\ last.id = "x1"
    /\ last.res = "FsglueDocumentNotFound"
    /\ ~Exists("x1", store)

\* what a *_by_dict call leaves behind, r being what the call answers
SameOutcome(r) ==
    /\ last'.res = r.res
    /\ last'.log = r.log
    /\ last'.created = r.created
    /\ store' = r.store
    /\ objs' = IF r.ret THEN DictSet(objs, last'.slot, r.obj) ELSE objs

\* C16: upsert_by_dict given a mapping with a non-empty id has the effect
\* and result of update_by_dict when a document with that id is stored, and
\* those of create_by_dict when none is; it never raises document-not-found.
C16_UpsertIsUpdateOrCreate ==
    [][(last'.op = "upsert_by_dict" /\ last'.id # NoneId) =>
          /\ last'.res # "FsglueDocumentNotFound"
          /\ \A new_id \in NewIds(store) :
                \A r \in { IF Exists(last'.id, store)
                            THEN UpdateByDictRun(last'.values, last'.exclude, last'.only,
                                                 last'.without_put, last'.validate_ok,
                                                 last'.before_ok, store, now, new_id)
                            ELSE CreateByDictRun(last'.values, last'.exclude, last'.only,
                                                 last'.without_put, last'.validate_ok,
                                                 last'.before_ok, store, now, new_id) } :
                    SameOutcome(r)]_vars

\* an upsert created the document under the given id
C16_Witness ==
    /\ last.op = "upsert_by_dict" /\ last.id = "x1" /\ last.res = "ok"
    /\ ~last.existed
    /\ Exists("x1", store)
    /\ LastObj.doc_id = "x1"

\* what the *_by_dict call named op answers
RunOf(op, values, exclude, only, without_put, validate_ok, before_ok, st, t, new_id) ==
    CASE op = "create_by_dict" ->
            CreateByDictRun(values, exclude, only, without_put, validate_ok, before_ok, st, t,
                            new_id)
      [] op = "update_by_dict" ->
            UpdateByDictRun(values, exclude, only, without_put, validate_ok, before_ok, st, t,
                            new_id)
      [] op = "upsert_by_dict" ->
            UpsertByDictRun(values, exclude, only, without_put, validate_ok, before_ok, st, t,
                            new_id)
ByDictOps == {"create_by_dict", "update_by_dict", "upsert_by_dict"}
\* the errors validation raises: those of the properties and that of the
\* validate hook
ValidationErrors == {"FsglueValidationError", "ValidateHookError"}

\* C17: with without_put=True, create_by_dict, update_by_dict and
\* upsert_by_dict write nothing to the store and call neither before_put nor
\* after_put, and they raise a validation error in exactly the cases in
\* which the same call without without_put raises one.
C17_WithoutPutOnlyValidates ==
    [][(last'.op \in ByDictOps /\ last'.without_put) =>
          /\ store' = store
          /\ NoWrite(last'.log)
          /\ \A e \in {"before_put:true", "before_put:false", "after_put"} :
                ~LogHas(last'.log, e)
          /\ \A new_id \in NewIds(store), before_ok \in BOOLEAN :
                \A r \in {RunOf(last'.op, last'.values, last'.exclude, last'.only, FALSE,
                                 last'.validate_ok, before_ok, store, now, new_id)} :
                    /\ (last'.res \in ValidationErrors) = (r.res \in ValidationErrors)
                    /\ r.res \in ValidationErrors => last'.res = r.res]_vars

\* create_by_dict with without_put raised the error of the required name,
\* which the mapping did not give: the error came from the validation that
\* replaces the put
C17_Witness ==
    /\ last.op = "create_by_dict" /\ last.without_put
    /\ last.res = "FsglueValidationError"
    /\ LogHas(last.log, "_validate:name")
    /\ "name" \notin DOMAIN last.values

\* the instance create_by_dict / update_by_dict populates: a new one, or the
\* one loaded from the store
Unpopulated(op, id, st) == IF op = "create_by_dict" THEN NewObj(id) ELSE Hydrate(id, st)
\* k is named in exclude, or only is given and does not name k
FilteredOut(k, exclude, only) == k \in exclude \/ (Truthy(only) /\ k \notin only.keys)

\* C18 (as claimed): in create_by_dict and update_by_dict a property named
\* in exclude, or not named in a given only, is not populated from the input
\* mapping: its in-memory value after the call is what it was before
\* population, and update_by_dict does not write that field to the store;
\* for every combination of exclude and only, both given included.
C18_FilteredPropertyUntouched ==
    [][(last'.op \in {"create_by_dict", "update_by_dict"} /\ last'.res = "ok") =>
          \A k \in PropNames :
              FilteredOut(k, last'.exclude, last'.only) =>
                  /\ SameField(objs'[last'.slot].vals,
                               Unpopulated(last'.op, last'.id, store).vals, k)
                  /\ last'.op = "update_by_dict" =>
                        SameField(store[last'.id], store'[last'.id], k)]_vars

\* an assignment of v to k takes effect
Assignable(k, v) ==
    /\ Validate(k, v, NewObj(NoneId)) = "ok"
    /\ from_app_value(k, v, NewObj(NoneId)) # SET_NOTHING
\* what put writes for k on an instance that was assigned v
WrittenFor(k, v) == GetDbValue(k, SetAppValue(k, NewObj(NoneId), v).obj, now)

\* C19 (as claimed): for every predicate of where / stream on a declared
\* property the value handed to the store's filter is the value put writes
\* for an instance whose property was assigned the query value, so that a
\* query on one "==" predicate matches the documents persisted with that
\* value; a predicate on an undeclared field is handed over unchanged.
C19_SearchValueIsStoredValue ==
    last.op \in {"where", "stream"} =>
        /\ \A n \in 1..Len(last.conds) :
              LET c == last.conds[n]
              IN IF c.field \in PropNames
                 THEN Assignable(c.field, c.value) =>
                          last.handed[n].value = WrittenFor(c.field, c.value)
                 ELSE last.handed[n].value = c.value
        /\ Len(last.conds) = 1 =>
              LET c == last.conds[1]
              IN (c.field \in PropNames /\ Assignable(c.field, c.value)) =>
                    \A id \in DOMAIN store :
                        (c.field \in DOMAIN store[id]
                            /\ store[id][c.field] = WrittenFor(c.field, c.value)) =>
                            id \in last.matched

StoredNames == {k \in PropNames : ~PropDef(k).is_virtual}

\* C20: the field names a put writes, whatever exclude and only, are names
\* of declared non-virtual properties: a virtual property is never written
\* and never hydrated from a stored document, and the identifier key of
\* to_dict() output and *_by_dict input is never written as a field.
C20_OnlyStoredPropertiesWritten ==
    [][/\ last'.op \in {"put"} \cup ByDictOps =>
            /\ last'.written \subseteq StoredNames
            /\ DICT_ID_KEY \notin last'.written
            /\ (LogHas(last'.log, "set") \/ LogHas(last'.log, "add")) =>
                  DOMAIN store'[objs'[last'.slot].doc_id] = last'.written
            /\ (LogHas(last'.log, "update") /\ LogHas(last'.log, "after_put")) =>
                  \A f \in DOMAIN store'[last'.id] :
                      f \in last'.written \/ SameField(store[last'.id], store'[last'.id], f)
       /\ (last'.op = "get_by_id" /\ last'.res = "ok") =>
            \A k \in PropNames \ StoredNames :
                /\ k \notin DOMAIN objs'[last'.slot].vals
                /\ IntactKey(k) \notin DOMAIN objs'[last'.slot].vals]_vars

\* a *_by_dict call given the identifier key and a virtual property wrote
\* the document
C20_Witness ==
    /\ last.op \in ByDictOps /\ LogHas(last.log, "after_put")
    /\ {DICT_ID_KEY, "label"} \subseteq DOMAIN last.values
    /\ "name" \in last.written
    /\ "label" \notin DOMAIN store[last.id]
\* the value the kind of property k makes of an assigned v
CoercionRule(k, v) ==
    CASE PropDef(k).kind = "String" -> IF v = None THEN None ELSE PyStr(v)
      [] PropDef(k).kind = "Integer" -> IF v = None THEN None ELSE PyInt(v)
      [] PropDef(k).kind = "Float" -> IF v = None THEN None ELSE PyFloat(v)
      [] PropDef(k).kind = "Boolean" -> IF v = None THEN None ELSE PyBool(v)
      [] PropDef(k).kind = "YesNo" -> IF v = Str("Yes") THEN Str("Yes") ELSE Str("No")
      [] OTHER -> v
\* what the application reads from every property of a Sample
SampleReads(obj) == [k \in SampleNames |-> GetAppValue(k, obj, FALSE)]

\* C21 (as claimed): for String, Integer, Float, Boolean, plain Timestamp,
\* Json (with and without store_as_string) and custom properties, a property
\* assigned v reads as v coerced by its kind's rule, and after put followed
\* by get_by_id the reloaded instance has the same doc_id and reads the same
\* value for each such property.
C21_RoundTrip ==
    [][/\ (last'.op = "assign" /\ last'.res = "ok") =>
            GetAppValue(last'.key, objs'[last'.slot], FALSE)
                = CoercionRule(last'.key, last'.value)
       /\ (last'.op = "get_by_id" /\ last'.res = "ok" /\ last.op = "put") =>
            /\ objs'[last'.slot].doc_id = objs[last'.slot].doc_id
            /\ SampleReads(objs'[last'.slot]) = SampleReads(objs[last'.slot])]_vars

\* to_dict(get_intact=True) of a Purchase, lists and dicts read by value
PurchaseIntact(obj, h) == [k \in PurchaseNames |-> Deref(GetAppValue(k, obj, TRUE), h)]

\* C22: after a property whose store value is a list or dict was hydrated,
\* the intact copy shares no list or dict with the value the application
\* reads: whatever in-place mutation is made through the value read,
\* to_dict(get_intact=True) still gives the loaded value, and change
\* detection reports before = the loaded value and after = the mutated one.
C22_IntactNotShared ==
    \A s \in DOMAIN objs :
        \A k \in PurchaseNames :
            (k \in DOMAIN last.values /\ IsComposite(last.values[k])) =>
                /\ Reach(objs[s].vals[k], heap) \cap Reach(objs[s].vals[IntactKey(k)], heap) = {}
                /\ PurchaseIntact(objs[s], heap)[k] = last.values[k]
                /\ GetChangeRef(k, objs[s], heap) =
                      IF Deref(GetAppValue(k, objs[s], FALSE), heap) = last.values[k] THEN None
                      ELSE <<"change", last.values[k],
                             Deref(GetAppValue(k, objs[s], FALSE), heap)>>

\* change detection after a dict inside the loaded items was mutated in
\* place: before is the loaded list, after the list with the mutated dict
C22_Witness ==
    /\ last.op = "_get_change" /\ last.key = "items"
    /\ last.value = <<"change", last.values["items"],
                       Lst(<<Dict(<<Str("apple"), Str("new")>>)>>)>>

\* the first attribute of body bound to descriptor d
FirstAttr(body, d) == SelectSeq(body, LAMBDA b : b.prop = d)[1].attr
\* the descriptors bound in body
BodyProps(body) == {body[n].prop : n \in 1..Len(body)}
PropsRange(props) == {props[nm] : nm \in DOMAIN props}

\* C23: a descriptor's name is assigned exactly once, by the first class
\* definition that contains it, and is changed neither by a later class
\* definition nor by an instance operation; every class's property mapping
\* keys each descriptor by that fixed name and is not modified once the
\* class exists.
C23_NameFixedOnce ==
    [][/\ \A d \in Descs :
            /\ meta.name[d] # NoName => meta'.name[d] = meta.name[d]
            /\ (meta.name[d] = NoName /\ meta'.name[d] # NoName) =>
                  /\ last'.op = "class"
                  /\ d \in BodyProps(meta'.classes[last'.id].body)
                  /\ meta'.name[d] = FirstAttr(meta'.classes[last'.id].body, d)
       /\ last'.op = "class" =>
            \A d \in BodyProps(meta'.classes[last'.id].body) : meta'.name[d] # NoName
       /\ \A c \in DOMAIN meta.classes :
            c \in DOMAIN meta'.classes /\ meta'.classes[c] = meta.classes[c]
       /\ \A c \in DOMAIN meta'.classes :
            \A nm \in DOMAIN meta'.classes[c].props :
                meta'.name[meta'.classes[c].props[nm]] = nm]_vars

\* a second class binds, as y, the descriptor the first class named x: its
\* mapping keys the descriptor by x, and an instance stores under x what is
\* assigned to y
C23_Witness ==
    /\ {"A", "B"} \subseteq DOMAIN meta.classes
    /\ meta.classes["A"].body = <<Binding("x", "p1")>>
    /\ meta.classes["B"].body = <<Binding("y", "p1")>>
    /\ meta.name["p1"] = "x"
    /\ DOMAIN meta.classes["B"].props = {"x"}
    /\ last.op = "assign" /\ last.key = "y" /\ last.of = "p1"
    /\ LastObj.cls = "B" /\ DOMAIN LastObj.vals = {"x"}

\* the class of the instance the last call was made on, and its mapping
OwnProps(obj) == meta.classes[obj.cls].props
\* the names under which an instance holds loaded or assigned values
HeldNames(obj) == {nm \in AttrNames : nm \in DOMAIN obj.vals}

\* C24 (as claimed): a class's property mapping contains exactly the
\* descriptors declared as attributes in that class's own body.
C24_MappingIsOwnBody ==
    \A c \in DOMAIN meta.classes :
        PropsRange(meta.classes[c].props) = BodyProps(meta.classes[c].body)

\* C24 (amended): a class's property mapping contains only descriptors
\* declared in that class's own body, under exactly their fixed names (of
\* two own descriptors with the same fixed name the one declared later is
\* kept); a property declared only on a base class is not part of it, so
\* to_dict, put and hydration of a subclass instance cover only the names
\* of the subclass's own declared properties, and validation only the
\* descriptors its mapping keeps.
C24_MappingWithinOwnBody ==
    [][/\ \A c \in DOMAIN meta'.classes :
            LET cl == meta'.classes[c]
            IN /\ PropsRange(cl.props) \subseteq BodyProps(cl.body)
               /\ DOMAIN cl.props = {meta'.name[d] : d \in BodyProps(cl.body)}
               /\ \A nm \in DOMAIN cl.props :
                     \A n \in 1..Len(cl.body) :
                         (meta'.name[cl.body[n].prop] = nm /\ cl.body[n].prop # cl.props[nm]) =>
                             \E m \in (n + 1)..Len(cl.body) : cl.body[m].prop = cl.props[nm]
       /\ (last'.op = "put" /\ "cls" \in DOMAIN objs[last'.slot]) =>
            LET obj == objs[last'.slot]
                own == {meta.name[d] : d \in BodyProps(meta.classes[obj.cls].body)}
            IN /\ DOMAIN PropsToDict(OwnProps(obj), obj) = own \cup {DICT_ID_KEY}
               /\ (last'.res # "ok") =
                     (\E d \in PropsRange(OwnProps(obj)) :
                         Required(d) /\ DictGet(obj.vals, meta.name[d]) = None)
               /\ last'.res = "ok" =>
                     /\ last'.written = own
                     /\ DOMAIN store'[last'.id] = own
       /\ (last'.op = "get_by_id" /\ "cls" \in DOMAIN objs'[last'.slot]) =>
            LET obj == objs'[last'.slot]
                own == {meta.name[d] : d \in BodyProps(meta.classes[obj.cls].body)}
            IN HeldNames(obj) = own \cap DOMAIN store[last'.id]]_vars

\* an instance of a subclass that declares only y was put without a value
\* for the required x of its base class: only y was written
C24_Witness ==
    /\ {"A", "B"} \subseteq DOMAIN meta.classes
    /\ meta.classes["A"].body = <<Binding("x", "p1")>>
    /\ meta.classes["B"].base = "A"
    /\ meta.classes["B"].body = <<Binding("y", "p2")>>
    /\ last.op = "put" /\ last.res = "ok" /\ LastObj.cls = "B"
    /\ last.written = {"y"}
    /\ DOMAIN store[last.id] = {"y"}

\* the instance resolves to the collection its document is stored in
ResolvesHome(r) == r.col_path = ColOf(r.path) /\ r.obj.doc_id = IdIn(r.path)
\* the stored path is the template filled with some parent identifiers
FromTemplate(t, path) ==
    \E parent_ids \in ParentTuples(t) : ColOf(path) = GetColPathByIds(t, parent_ids)
\* the parent identifiers of a document put through the template are
\* recovered from its path, in order
RecoversPut == last.op = "put" => ParentIdsFromPath(last.template, last.path) = last.parents

\* C25 (as claimed): the parent identifiers recovered from the path made of
\* the template filled with p, "/" and d are exactly p, in order, so every
\* instance a collection-group query of where / stream returns resolves to
\* the collection its document lives in.
C25_GroupResultsResolveHome ==
    /\ RecoversPut
    /\ (last.op \in {"where", "stream"} /\ last.collection_id # "") =>
          \A r \in last.matched : ResolvesHome(r)

\* C25 (amended): the same recovery of p; an instance returned by a
\* collection-group query resolves to the collection its document lives in
\* when that collection's path is the class's template filled with parent
\* identifiers, and then its parent identifiers are those.
C25_TemplateResultsResolveHome ==
    /\ RecoversPut
    /\ (last.op \in {"where", "stream"} /\ last.collection_id # "") =>
          /\ {r.path : r \in last.matched} = InGroup(last.collection_id, store)
          /\ \A r \in last.matched :
                FromTemplate(last.template, r.path) =>
                    /\ ResolvesHome(r)
                    /\ GetColPathByIds(last.template, r.parent_ids) = ColOf(r.path)
                    /\ Len(r.parent_ids) = Arity(last.template)

\* a group query over "page" returned a document stored under two different
\* parents, with both recovered in order
C25_Witness ==
    /\ last.op = "where" /\ last.collection_id = "page" /\ last.template = PagePath
    /\ \E r \in last.matched :
          /\ r.parent_ids = <<"r1", "messages">>
          /\ r.path = <<"category", "r1", "group", "messages", "page", "m1">>
          /\ ResolvesHome(r)

\* the identifiers of a call
IdsOf(doc_ids) == {doc_ids[n] : n \in 1..Len(doc_ids)}

\* C26: get_by_ids returns, without raising, exactly one hydrated instance
\* for each requested identifier that has a document and none for an
\* identifier that has no document; for an empty list it returns an empty
\* list without contacting the store.
C26_GetByIdsSkipsMissing ==
    last.op = "get_by_ids" =>
        /\ last.res = "ok"
        /\ last.matched = {Hydrate(id, store) : id \in IdsOf(last.ids) \cap DOMAIN store}
        /\ (last.ids = <<>> => last.log = <<>>)

\* C27: when another client deletes or creates the target document between
\* the existence check of upsert_by_dict and the lookup or write that
\* follows, the call still ends by updating or creating the document and
\* never raises the document-not-found error.
C27_UpsertSurvivesRace ==
    (last.op = "upsert_by_dict" /\ last.id # NoneId) =>
        /\ last.res # "FsglueDocumentNotFound"
        /\ last.res = "ok"
        /\ last.id \in DOMAIN store

\* the ids in a result, and whether each occurs once
Returned(ids) == {ids[n] : n \in 1..Len(ids)}
Once(ids) == \A m, n \in 1..Len(ids) : ids[m] = ids[n] => m = n

\* C28: where and all return at most limit results, limit being 100 when
\* the caller gives none, so all() over more than 100 documents returns 100
\* of them; stream applies no limit and yields one instance for every
\* matching document, each exactly once.
C28_LimitBoundsResults ==
    /\ (last.op \in {"where", "all"} /\ last.limit # None) =>
          /\ Len(last.ids) <= last.limit[2]
          /\ Once(last.ids)
          /\ Returned(last.ids) \subseteq Matching(last.handed, store)
    /\ (last.op = "all" /\ last.limit = Num(DefaultLimit) /\ Len(store) > DefaultLimit) =>
          Len(last.ids) = DefaultLimit
    /\ last.op = "stream" =>
          /\ Once(last.ids)
          /\ Returned(last.ids) = Matching(last.handed, store)
====
